---- MODULE Spec2Model ----
(***************************************************************************)
(* A model of the ECG dataset generator of Qwen2-VL-Finetune               *)
(* (patch_aligned_ecg_generation.py): the pixel downsampler, the           *)
(* annotation rescaler, the wave-triplet scan, the conversation builders   *)
(* and the main loop over records, leads and windows.                      *)
(*                                                                         *)
(* Numbers that numpy holds as floats are held here as exact rationals     *)
(* (a numerator over a stated denominator), so that index arithmetic is    *)
(* the arithmetic of the code and not a rounding of it.                    *)
(***************************************************************************)
EXTENDS Integers, Sequences, FiniteSets, TLC

VARIABLES
    pc,                 \* position of the script / of the function under check
    granularity,        \* CHOSEN_GRANULARITY
    call,               \* arguments of the pure function under check
    ret,                \* its result
    db,                 \* the database on disk: annotation events and CSV row
    rec_id,             \* main loop: for rec_id in range(1, 201)
    lead_idx,           \* main loop: for lead_idx, lead in enumerate(LEADS)
    w,                  \* main loop: for w in range(num_windows)
    num_windows,        \* total_samples // samples_per_window
    ann_in_window,      \* [(s - start, sym) ...] of the current window
    scaled_annotations, \* [(pixel_idx, symbol) ...]
    i,                  \* scan index of the triplet scan
    waves,              \* {'QRS': [], 'P': [], 'T': []}
    dataset_wo_meta,    \* list of examples
    dataset_with_meta,  \* list of examples
    images,             \* files written under SAVE_IMG_DIR
    errors,             \* records whose processing printed "Error with record"
    disk,               \* create_patch_aligned_image: size of the file at output_path
    actual,             \* create_patch_aligned_image: (actual_width, actual_height)
    log,                \* create_patch_aligned_image: lines printed
    idx,                \* multi-turn drivers: turns done (for idx, ... in enumerate(messages))
    assistant_replies,  \* multi-turn drivers: the replies so far
    conv_history,       \* multi-turn drivers: what the last turn handed to the chat template
    streamer,           \* bot_streaming: the queue of the TextIteratorStreamer
    buffer,             \* bot_streaming: the text received so far
    yielded,            \* bot_streaming: the values yielded so far
    thread              \* bot_streaming: the thread running model.generate

vars == <<pc, granularity, call, ret, db, rec_id, lead_idx, w, num_windows,
          ann_in_window, scaled_annotations, i, waves,
          dataset_wo_meta, dataset_with_meta, images, errors, disk, actual, log,
          idx, assistant_replies, conv_history, streamer, buffer, yielded, thread>>

(***************************************************************************)
(* Configuration                                                           *)
(***************************************************************************)
WINDOW_SEC == 2

FS == 500

PATCH_SIZE == 28

samples_per_window == FS * WINDOW_SEC

GranularityNames == {"ultra_fine", "fine", "medium", "coarse"}

\* The widths that hold one pixel per samples_per_pixel samples of the window,
\* without rounding to the patch size.
GRANULARITY_OPTIONS_unaligned ==
    [g \in GranularityNames |->
        CASE g = "ultra_fine" -> [width |-> 1000, height |-> 28 * 8, samples_per_pixel |-> 1]
          [] g = "fine"       -> [width |-> 500, height |-> 28 * 8, samples_per_pixel |-> 2]
          [] g = "medium"     -> [width |-> 250, height |-> 28 * 8, samples_per_pixel |-> 4]
          [] g = "coarse"     -> [width |-> 200, height |-> 28 * 8, samples_per_pixel |-> 5]]

GRANULARITY_OPTIONS ==
    [g \in GranularityNames |->
        CASE g = "ultra_fine" -> [width |-> 28 * 36, height |-> 28 * 8, samples_per_pixel |-> 1]
          [] g = "fine"       -> [width |-> 28 * 18, height |-> 28 * 8, samples_per_pixel |-> 2]
          [] g = "medium"     -> [width |-> 28 * 10, height |-> 28 * 8, samples_per_pixel |-> 4]
          [] g = "coarse"     -> [width |-> 28 * 9,  height |-> 28 * 8, samples_per_pixel |-> 5]]

CHOSEN_GRANULARITY == "fine"

FIXED_WIDTH(g) == GRANULARITY_OPTIONS[g].width

FIXED_HEIGHT(g) == GRANULARITY_OPTIONS[g].height

SAMPLES_PER_PIXEL(g) == GRANULARITY_OPTIONS[g].samples_per_pixel

(***************************************************************************)
(* Python and numpy primitives                                             *)
(***************************************************************************)
Min(a, b) == IF a < b THEN a ELSE b

Max(a, b) == IF a > b THEN a ELSE b

\* int(num / den) for den > 0: Python's int() truncates toward zero.
PyInt(num, den) == IF num >= 0 THEN num \div den ELSE -((-num) \div den)

\* np.linspace(0, total_samples - 1, target_samples)[j] is the rational
\* linspace_num(j, total_samples) / linspace_den(target_samples).
linspace_num(j, total_samples) == j * (total_samples - 1)

linspace_den(target_samples) == IF target_samples > 1 THEN target_samples - 1 ELSE 1

\* np.interp(num / den, np.arange(Len(fp)), fp) * den, for 0 <= num/den <= Len(fp) - 1.
\* fp is a TLA+ sequence, so fp[k + 1] is the code's fp[k].
interp_num(num, den, fp) ==
    LET lo   == num \div den
        frac == num % den
    IN  IF frac = 0
        THEN fp[lo + 1] * den
        ELSE fp[lo + 1] * (den - frac) + fp[lo + 2] * frac

RECURSIVE SumSeq(_)
SumSeq(s) == IF s = <<>> THEN 0 ELSE s[1] + SumSeq(Tail(s))

\* np.mean(signal.reshape(target_width, samples_per_pixel), axis=1), as numerators
\* over samples_per_pixel times the denominator of the signal.
block_sums(nums, target_width, samples_per_pixel) ==
    [p \in 1..target_width |->
        SumSeq(SubSeq(nums, (p - 1) * samples_per_pixel + 1, p * samples_per_pixel))]

(***************************************************************************)
(* downsample_signal_for_perfect_mapping (lines 57-76)                     *)
(* The result holds pixel_values[p] = num[p + 1] / den, or the name of the  *)
(* exception numpy raises.                                                 *)
(***************************************************************************)
Returned(nums, den) == [raises |-> "", num |-> nums, den |-> den]

Raised(exc) == [raises |-> exc, num |-> <<>>, den |-> 1]

resample(signal, total_samples, target_samples) ==
    [j \in 1..target_samples |->
        interp_num(linspace_num(j - 1, total_samples),
                   linspace_den(target_samples), signal)]

\* The same function without its resampling step.
downsample_without_resample(signal, target_width, samples_per_pixel) ==
    IF samples_per_pixel > 1
    THEN IF Len(signal) # target_width * samples_per_pixel
         THEN Raised("ValueError")
         ELSE Returned(block_sums(signal, target_width, samples_per_pixel),
                       samples_per_pixel)
    ELSE Returned(signal, 1)

downsample_signal_for_perfect_mapping(signal, target_width, samples_per_pixel) ==
    LET total_samples  == Len(signal)
        target_samples == target_width * samples_per_pixel
        resampled      == total_samples # target_samples
        den            == IF resampled THEN linspace_den(target_samples) ELSE 1
        sig            == IF resampled
                          THEN resample(signal, total_samples, target_samples)
                          ELSE signal
    IN  IF resampled /\ total_samples = 0
        THEN Raised("ValueError")           \* np.interp: array of sample points is empty
        ELSE IF samples_per_pixel > 1
             THEN IF Len(sig) # target_width * samples_per_pixel
                  THEN Raised("ValueError") \* reshape: sizes do not match
                  ELSE Returned(block_sums(sig, target_width, samples_per_pixel),
                                den * samples_per_pixel)
             ELSE Returned(sig, den)

\* The pixel whose averaging block holds the original sample at relative index
\* sample_idx: pixel p averages the resampled points p*S .. p*S + S - 1, and the
\* resampled point j lies at original position linspace(j); without resampling the
\* resampled points are the samples themselves.
pixel_of_sample(sample_idx, total_samples, target_width, samples_per_pixel) ==
    LET target_samples == target_width * samples_per_pixel
        den            == linspace_den(target_samples)
        starts_by(p)   == IF total_samples # target_samples
                          THEN linspace_num(p * samples_per_pixel, total_samples)
                                   <= sample_idx * den
                          ELSE p * samples_per_pixel <= sample_idx
    IN  CHOOSE p \in 0..(target_width - 1) :
            /\ starts_by(p)
            /\ (p = target_width - 1 \/ ~starts_by(p + 1))

(***************************************************************************)
(* Annotation rescaler (lines 257-263)                                     *)
(***************************************************************************)
\* The sample index taken for a pixel index, with no division.
scale_annotation_unscaled(sample_idx, samples_per_pixel, width) ==
    Max(0, Min(sample_idx, width - 1))

scale_annotation(sample_idx, samples_per_pixel, width) ==
    LET pixel_idx == PyInt(sample_idx, samples_per_pixel)
    IN  Max(0, Min(pixel_idx, width - 1))

(***************************************************************************)
(* Wave-triplet scan (lines 265-292)                                       *)
(***************************************************************************)
Symbols == {"(", ")", "N", "V", "A", "n", "v", "a", "p", "t", "P", "T", "+"}

\* str.upper() on the annotation symbols.
upper(sym) ==
    CASE sym = "n" -> "N"
      [] sym = "v" -> "V"
      [] sym = "a" -> "A"
      [] sym = "p" -> "P"
      [] sym = "t" -> "T"
      [] OTHER     -> sym

WaveTypes == {"QRS", "P", "T"}

new_waves == [QRS |-> <<>>, P |-> <<>>, T |-> <<>>]

\* The three tests without .upper() on the QRS codes.
match_type_case_sensitive(sym1, sym2, sym3) ==
    IF sym1 = "(" /\ sym2 \in {"N", "V", "A"} /\ sym3 = ")" THEN "QRS"
    ELSE IF sym1 = "(" /\ sym2 = "p" /\ sym3 = ")" THEN "P"
    ELSE IF sym1 = "(" /\ sym2 = "t" /\ sym3 = ")" THEN "T"
    ELSE "none"

\* The three tests of the loop body, in their order: the bucket a triplet of
\* symbols is appended to, or "none".
match_type(sym1, sym2, sym3) ==
    IF sym1 = "(" /\ upper(sym2) \in {"N", "V", "A"} /\ sym3 = ")" THEN "QRS"
    ELSE IF sym1 = "(" /\ sym2 = "p" /\ sym3 = ")" THEN "P"
    ELSE IF sym1 = "(" /\ sym2 = "t" /\ sym3 = ")" THEN "T"
    ELSE "none"

\* The loop body with `i += 3` on every path: a scan in strides of three.
scan_step_fixed_stride(sa, i0, wv) ==
    LET m == match_type(sa[i0 + 1][2], sa[i0 + 2][2], sa[i0 + 3][2])
    IN  [i     |-> i0 + 3,
         waves |-> IF m # "none"
                   THEN [wv EXCEPT ![m] = Append(@, <<sa[i0 + 1][1], sa[i0 + 2][1], sa[i0 + 3][1]>>)]
                   ELSE wv]

\* The loop body without its final `i += 1`.
scan_step_no_advance(sa, i0, wv) ==
    LET m == match_type(sa[i0 + 1][2], sa[i0 + 2][2], sa[i0 + 3][2])
    IN  IF m # "none"
        THEN [i |-> i0 + 3,
              waves |-> [wv EXCEPT ![m] = Append(@, <<sa[i0 + 1][1], sa[i0 + 2][1], sa[i0 + 3][1]>>)]]
        ELSE [i |-> i0, waves |-> wv]

\* The loop body with insert(0, ...) for append(...).
scan_step_prepend(sa, i0, wv) ==
    LET m == match_type(sa[i0 + 1][2], sa[i0 + 2][2], sa[i0 + 3][2])
    IN  IF m # "none"
        THEN [i |-> i0 + 3,
              waves |-> [wv EXCEPT ![m] = <<<<sa[i0 + 1][1], sa[i0 + 2][1], sa[i0 + 3][1]>>>> \o @]]
        ELSE [i |-> i0 + 1, waves |-> wv]

\* One iteration of `while i + 2 < len(scaled_annotations)`; sa[k + 1] is the
\* code's scaled_annotations[k].
scan_step(sa, i0, wv) ==
    LET s1 == sa[i0 + 1][1]
        s2 == sa[i0 + 2][1]
        s3 == sa[i0 + 3][1]
        m  == match_type(sa[i0 + 1][2], sa[i0 + 2][2], sa[i0 + 3][2])
    IN  IF m # "none"
        THEN [i |-> i0 + 3, waves |-> [wv EXCEPT ![m] = Append(@, <<s1, s2, s3>>)]]
        ELSE [i |-> i0 + 1, waves |-> wv]

RECURSIVE scan_from(_, _, _)
scan_from(sa, i0, wv) ==
    IF i0 + 2 < Len(sa)
    THEN LET st == scan_step(sa, i0, wv) IN scan_from(sa, st.i, st.waves)
    ELSE wv

\* scaled_annotations of a window (lines 258-263).
scale_annotations(anns, g) ==
    [k \in 1..Len(anns) |->
        <<scale_annotation(anns[k][1], SAMPLES_PER_PIXEL(g), FIXED_WIDTH(g)), anns[k][2]>>]

(***************************************************************************)
(* Bounds of the inputs                                                    *)
(***************************************************************************)
MaxLen == 4          \* longest signal handed to the downsampler

MaxWidth == 3        \* largest target_width handed to the downsampler

MaxSpp == 3          \* largest samples_per_pixel handed to the downsampler

MaxWindowIdx == 1    \* largest window index of the rescaler's inputs

MaxEvents == 5       \* longest annotation sequence over CoreSymbols

MaxTriplets == 2     \* most well-formed triplets placed back to back

SigVals == {0, 1}

SeqsUpTo(S, n) == UNION {[1..k -> S] : k \in 0..n}

Signals == SeqsUpTo(SigVals, MaxLen) \ {<<>>}

CoreSymbols == {"(", ")", "N", "p", "+"}

WellFormedCodes == {"N", "V", "A", "n", "v", "a", "p", "t"}

\* k well-formed triplets placed back to back, one for each entry of codes.
BackToBack(codes) ==
    [k \in 1..(3 * Len(codes)) |->
        IF k % 3 = 1 THEN "(" ELSE IF k % 3 = 2 THEN codes[(k + 1) \div 3] ELSE ")"]

SymbolSeqs ==
    SeqsUpTo(Symbols, 3) \cup SeqsUpTo(CoreSymbols, MaxEvents)
        \cup {BackToBack(codes) : codes \in SeqsUpTo(WellFormedCodes, MaxTriplets)}

\* Annotation events of one window, 10 samples apart from relative sample 20 on.
MkAnn(syms) == [k \in 1..Len(syms) |-> <<20 + 10 * (k - 1), syms[k]>>]

ScanInputs == {MkAnn(syms) : syms \in SymbolSeqs}

(***************************************************************************)
(* Variable groups and the values of the variables a specification does    *)
(* not use                                                                 *)
(***************************************************************************)
callVars == <<call, ret>>

scanVars == <<ann_in_window, scaled_annotations, i, waves>>

loopVars == <<db, rec_id, lead_idx, w, num_windows,
              dataset_wo_meta, dataset_with_meta, images, errors>>

IdleCall == call = [op |-> "none"] /\ ret = [raises |-> ""]

imageVars == <<disk, actual, log>>

turnVars == <<idx, assistant_replies, conv_history>>

streamVars == <<streamer, buffer, yielded, thread>>

driveVars == <<turnVars, streamVars>>

IdleTurns == idx = 0 /\ assistant_replies = <<>> /\ conv_history = <<>>

IdleStream ==
    /\ streamer = <<>>
    /\ buffer = <<>>
    /\ yielded = <<>>
    /\ thread = [alive |-> FALSE, put |-> 0]

IdleDrive == IdleTurns /\ IdleStream

IdleImage == disk = <<>> /\ actual = <<>> /\ log = <<>>

IdleScan ==
    /\ ann_in_window = <<>>
    /\ scaled_annotations = <<>>
    /\ i = 0
    /\ waves = new_waves

IdleLoop ==
    /\ db = [ann |-> <<>>, present |-> {}, row |-> <<>>, total_samples |-> 0]
    /\ rec_id = 0
    /\ lead_idx = 0
    /\ w = 0
    /\ num_windows = 0
    /\ dataset_wo_meta = <<>>
    /\ dataset_with_meta = <<>>
    /\ images = {}
    /\ errors = {}

(***************************************************************************)
(* SpecDownsample: downsample_signal_for_perfect_mapping on bounded inputs *)
(***************************************************************************)
InitDownsample ==
    /\ pc = "call_downsample"
    /\ granularity = CHOSEN_GRANULARITY
    /\ call \in {[op |-> "downsample", signal |-> sig, target_width |-> tw,
                  samples_per_pixel |-> spp] :
                    sig \in Signals, tw \in 1..MaxWidth, spp \in 1..MaxSpp}
    /\ ret = [raises |-> ""]
    /\ IdleScan
    /\ IdleImage
    /\ IdleDrive
    /\ IdleLoop

Downsample ==
    /\ pc = "call_downsample"
    /\ ret' = downsample_signal_for_perfect_mapping(
                  call.signal, call.target_width, call.samples_per_pixel)
    /\ pc' = "returned_downsample"
    /\ UNCHANGED <<granularity, driveVars, call, scanVars, loopVars, imageVars>>

SpecDownsample == InitDownsample /\ [][Downsample]_vars

(***************************************************************************)
(* SpecRescale: one annotation of one window, mapped by the rescaler       *)
(* (lines 246-263) and located in the downsampler's blocks (lines 236-244) *)
(***************************************************************************)
InitRescale ==
    /\ pc = "call_rescale"
    /\ granularity \in GranularityNames
    /\ call \in {[op |-> "rescale", w |-> wi, s |-> wi * samples_per_window + rel] :
                    wi \in 0..MaxWindowIdx, rel \in 0..(samples_per_window - 1)}
    /\ ret = [raises |-> ""]
    /\ IdleScan
    /\ IdleImage
    /\ IdleDrive
    /\ IdleLoop

MapAnnotation ==
    /\ pc = "call_rescale"
    /\ LET start      == call.w * samples_per_window
           end        == start + samples_per_window
           sample_idx == call.s - start
       IN  /\ start <= call.s /\ call.s < end
           /\ ret' = [raises     |-> "",
                      sample_idx |-> sample_idx,
                      pixel_idx  |-> scale_annotation(sample_idx,
                                         SAMPLES_PER_PIXEL(granularity),
                                         FIXED_WIDTH(granularity)),
                      block      |-> pixel_of_sample(sample_idx, end - start,
                                         FIXED_WIDTH(granularity),
                                         SAMPLES_PER_PIXEL(granularity))]
    /\ pc' = "returned_rescale"
    /\ UNCHANGED <<granularity, driveVars, call, scanVars, loopVars, imageVars>>

SpecRescale == InitRescale /\ [][MapAnnotation]_vars

(***************************************************************************)
(* SpecScan: the rescaling and the triplet scan of one window, one loop    *)
(* iteration at a time (lines 257-292).  The script runs on until the loop *)
(* ends, so its steps are weakly fair.                                     *)
(***************************************************************************)
InitScan ==
    /\ pc = "scale"
    /\ granularity = CHOSEN_GRANULARITY
    /\ ann_in_window \in ScanInputs
    /\ scaled_annotations = <<>>
    /\ i = 0
    /\ waves = new_waves
    /\ IdleCall
    /\ IdleLoop
    /\ IdleImage
    /\ IdleDrive

ScaleWindow ==
    /\ pc = "scale"
    /\ scaled_annotations' = scale_annotations(ann_in_window, granularity)
    /\ waves' = new_waves
    /\ i' = 0
    /\ pc' = IF Len(ann_in_window) < 3 THEN "skipped" ELSE "scan"
    /\ UNCHANGED <<granularity, driveVars, ann_in_window, callVars, loopVars, imageVars>>

ScanIteration ==
    /\ pc = "scan"
    /\ i + 2 < Len(scaled_annotations)
    /\ LET st == scan_step(scaled_annotations, i, waves)
       IN  i' = st.i /\ waves' = st.waves
    /\ UNCHANGED <<pc, granularity, driveVars, ann_in_window, scaled_annotations, callVars, loopVars, imageVars>>

ScanExit ==
    /\ pc = "scan"
    /\ ~(i + 2 < Len(scaled_annotations))
    /\ pc' = "scanned"
    /\ UNCHANGED <<granularity, driveVars, scanVars, callVars, loopVars, imageVars>>

NextScan == ScaleWindow \/ ScanIteration \/ ScanExit

SpecScan == InitScan /\ [][NextScan]_vars /\ WF_vars(NextScan)

(***************************************************************************)
(* Conversation builders (lines 134-201).  A turn is its speaker, the      *)
(* number of "<image>\n" markers put before its text, the text (its        *)
(* template and what fills it) and, for an answer of tags, the tags.       *)
(***************************************************************************)
Turn(from, text, tags) == [from |-> from, image |-> 0, text |-> text, tags |-> tags]

\* The permutations of 1..n: what random.shuffle may leave.
Perms(n) == {p \in [1..n -> 1..n] : \A a, b \in 1..n : p[a] = p[b] => a = b}

shuffle(seq, perm) == [k \in 1..Len(seq) |-> seq[perm[k]]]

WAVE_ORDER == <<"QRS", "P", "T">>

\* tags of one wave type (lines 152-157).
wave_tags(triplets, wave_type) ==
    [k \in 1..Len(triplets) |->
        [x1 |-> triplets[k][1], x2 |-> triplets[k][2], x3 |-> triplets[k][3],
         alt |-> wave_type, label |-> wave_type]]

RECURSIVE build_questions_from(_, _, _)
build_questions_from(waves_dict, wave_order, convo) ==
    IF wave_order = <<>> THEN convo
    ELSE LET wave_type == Head(wave_order)
         IN  IF waves_dict[wave_type] = <<>>
             THEN build_questions_from(waves_dict, Tail(wave_order), convo)
             ELSE LET question == IF convo = <<>>
                                  THEN <<"Please identify", wave_type>>
                                  ELSE <<"What about", wave_type>>
                  IN  build_questions_from(waves_dict, Tail(wave_order),
                          convo \o <<Turn("human", question, <<>>),
                                     Turn("gpt", <<"tags">>,
                                          wave_tags(waves_dict[wave_type], wave_type))>>)

\* wave_order is the list as random.shuffle left it.
build_patch_aware_questions(waves_dict, wave_order) ==
    build_questions_from(waves_dict, wave_order, <<>>)

\* row holds the CSV columns with a non-empty value, in the order of `fields`;
\* perm is the shuffle of the question/answer pairs.
build_patient_questions(row, perm) ==
    LET qas == shuffle(row, perm)
    IN  [k \in 1..(2 * Len(qas)) |->
            IF k % 2 = 1
            THEN Turn("human", <<"patient question", qas[(k + 1) \div 2]>>, <<>>)
            ELSE Turn("gpt", <<"patient answer", qas[k \div 2]>>, <<>>)]

\* Lines 192-201 with convo[i] appended twice (never taken by the script).
pairwise_shuffle_first_only(convo, perm) ==
    [k \in 1..Len(convo) |-> convo[2 * (perm[(k + 1) \div 2] - 1) + 1]]

\* perm is the shuffle of the pair indices; the code asserts len(convo) % 2 == 0.
pairwise_shuffle(convo, perm) ==
    [k \in 1..Len(convo) |->
        convo[2 * (perm[(k + 1) \div 2] - 1) + (IF k % 2 = 1 THEN 1 ELSE 2)]]

\* What build_patch_aware_questions may return, over the outcomes of its shuffle.
wave_conversations(waves_dict) ==
    {build_patch_aware_questions(waves_dict, shuffle(WAVE_ORDER, order)) :
        order \in Perms(Len(WAVE_ORDER))}

\* pairwise_shuffle(convo), over the outcomes of its shuffle.
pairwise_shuffles(convo) ==
    {pairwise_shuffle(convo, perm) : perm \in Perms(Len(convo) \div 2)}

\* Lines 314-316: convo_meta + convo_wave, over the outcomes of the four shuffles.
full_conversations(row, waves_dict) ==
    LET metas == UNION {pairwise_shuffles(build_patient_questions(row, pm)) :
                            pm \in Perms(Len(row))}
        wvs   == UNION {pairwise_shuffles(c) : c \in wave_conversations(waves_dict)}
    IN  {m \o c : m \in metas, c \in wvs}

\* msg["value"] = "<image>\n" + msg["value"]
with_image_marker(msg) == [msg EXCEPT !.image = @ + 1]

\* Lines 318-321 without the break: every human turn gets the marker (never
\* taken by the script).
mark_every_human(convo) ==
    [k \in 1..Len(convo) |->
        IF convo[k].from = "human" THEN with_image_marker(convo[k]) ELSE convo[k]]

\* Lines 318-321: the marker goes to the first human turn, if there is one.
mark_first_human(convo) ==
    IF \E k \in 1..Len(convo) : convo[k].from = "human"
    THEN LET first == CHOOSE k \in 1..Len(convo) :
                          /\ convo[k].from = "human"
                          /\ \A j \in 1..(k - 1) : convo[j].from # "human"
         IN  [convo EXCEPT ![first] = with_image_marker(@)]
    ELSE convo

(***************************************************************************)
(* Main loop (lines 207-349)                                               *)
(***************************************************************************)
NumRecords == 2      \* the code runs range(1, 201)

MaxWindows == 2      \* most windows of a record (total_samples // 1000)

LEADS == <<"i", "ii", "iii", "avr", "avl", "avf",
           "v1", "v2", "v3", "v4", "v5", "v6">>

SAVE_IMG_DIR == "./ecg_images"

MS_PER_PIXEL(g) == (1000 \div FS) * SAMPLES_PER_PIXEL(g)

TOTAL_PATCHES(g) == (FIXED_WIDTH(g) \div PATCH_SIZE) * (FIXED_HEIGHT(g) \div PATCH_SIZE)

metadata(g) ==
    [granularity       |-> g,
     ms_per_pixel      |-> MS_PER_PIXEL(g),
     samples_per_pixel |-> SAMPLES_PER_PIXEL(g),
     image_width       |-> FIXED_WIDTH(g),
     image_height      |-> FIXED_HEIGHT(g),
     patch_grid        |-> <<FIXED_WIDTH(g) \div PATCH_SIZE, FIXED_HEIGHT(g) \div PATCH_SIZE>>,
     total_patches     |-> TOTAL_PATCHES(g),
     patch_aligned     |-> TRUE]

\* Annotation files (ann.sample, ann.symbol) of the databases the model runs on.
\* The reader is outside the repository and the script neither sorts nor checks
\* what it returns, so a file with samples out of time order is among them.
AnnNone == <<>>

AnnTwoWindows ==
    <<<<20, "(">>, <<30, "p">>, <<40, ")">>,
      <<1050, "(">>, <<1060, "N">>, <<1070, ")">>>>

AnnTwoWaves ==
    <<<<20, "(">>, <<30, "p">>, <<40, ")">>, <<50, "(">>, <<60, "N">>, <<70, ")">>,
      <<1100, "(">>, <<1200, "t">>>>

AnnNoTripletSecond ==
    <<<<0, "(">>, <<1, "t">>, <<999, ")">>,
      <<1010, "(">>, <<1020, "(">>, <<1030, "p">>>>

AnnNoTripletFirst ==
    <<<<100, "N">>, <<110, ")">>, <<120, "(">>,
      <<1050, "(">>, <<1060, "N">>, <<1070, ")">>>>

AnnOutOfOrder ==
    <<<<40, "(">>, <<30, "p">>, <<20, ")">>>>

AnnStraddling ==
    <<<<998, "(">>, <<999, "N">>, <<1000, ")">>>>

AnnInputs ==
    {AnnNone, AnnTwoWindows, AnnTwoWaves, AnnNoTripletSecond, AnnNoTripletFirst,
     AnnOutOfOrder, AnnStraddling}

Rows == {<<>>, <<"Age">>, <<"Age", "Sex">>}

\* signal.shape[0] of the records: up to MaxWindows whole windows and half a
\* window more.
TotalSamplesChoices ==
    {n * samples_per_window + samples_per_window \div 2 : n \in 0..MaxWindows}

LeadNames == {LEADS[k] : k \in 1..Len(LEADS)}

\* A database gives every record the same length and CSV row, and every lead
\* that has an annotation file (present) the same events.
Databases ==
    {[ann |-> a, present |-> LeadNames, row |-> <<"Age">>, total_samples |-> ts] :
        a \in AnnInputs \ {AnnTwoWaves}, ts \in TotalSamplesChoices}
        \cup {[ann |-> AnnTwoWaves, present |-> {"i"}, row |-> <<"Age">>,
               total_samples |-> ts] : ts \in TotalSamplesChoices}
        \cup {[ann |-> AnnTwoWindows, present |-> {"ii"}, row |-> r,
               total_samples |-> ts] : r \in Rows, ts \in TotalSamplesChoices}

\* Lines 246-247: the events of window win, relative to its start.
window_annotations(ann, win) ==
    LET start == win * samples_per_window
        end   == start + samples_per_window
        RECURSIVE pick(_)
        pick(k) == IF k > Len(ann) THEN <<>>
                   ELSE IF start <= ann[k][1] /\ ann[k][1] < end
                        THEN <<<<ann[k][1] - start, ann[k][2]>>>> \o pick(k + 1)
                        ELSE pick(k + 1)
    IN  pick(1)

\* Text is a sequence of characters.  str() of a non-negative integer:
Digits == <<"0", "1", "2", "3", "4", "5", "6", "7", "8", "9">>

RECURSIVE str(_)
str(n) == IF n < 10 THEN <<Digits[n + 1]>>
          ELSE str(n \div 10) \o <<Digits[(n % 10) + 1]>>

\* str.zfill of a text without sign.
RECURSIVE zfill(_, _)
zfill(s, width) == IF Len(s) >= width THEN s ELSE zfill(<<"0">> \o s, width)

\* The characters of the lead names.
lead_chars(lead) ==
    CASE lead = "i"   -> <<"i">>
      [] lead = "ii"  -> <<"i", "i">>
      [] lead = "iii" -> <<"i", "i", "i">>
      [] lead = "avr" -> <<"a", "v", "r">>
      [] lead = "avl" -> <<"a", "v", "l">>
      [] lead = "avf" -> <<"a", "v", "f">>
      [] lead = "v1"  -> <<"v", "1">>
      [] lead = "v2"  -> <<"v", "2">>
      [] lead = "v3"  -> <<"v", "3">>
      [] lead = "v4"  -> <<"v", "4">>
      [] lead = "v5"  -> <<"v", "5">>
      [] lead = "v6"  -> <<"v", "6">>

\* Line 252 with the window dropped from the name.
img_filename_without_window(rec, lead, win) ==
    str(rec) \o <<"_">> \o lead_chars(lead) \o <<".", "p", "n", "g">>

\* Line 252: f"{rec_name}_{lead}_{w}.png"
img_filename(rec, lead, win) ==
    str(rec) \o <<"_">> \o lead_chars(lead) \o <<"_">> \o str(win)
        \o <<".", "p", "n", "g">>

\* Lines 298 and 324: f"{rec_name.zfill(3)}_{lead}_{w}_wo_meta" and "..._with_meta";
\* the suffix ("wo_meta", "with_meta") is kept as one element.
example_id(rec, lead, win, suffix) ==
    zfill(str(rec), 3) \o <<"_">> \o lead_chars(lead) \o <<"_">> \o str(win)
        \o <<"_", suffix>>

example(rec, lead, win, suffix, image, conversations, g) ==
    [id            |-> example_id(rec, lead, win, suffix),
     image         |-> image,
     conversations |-> conversations,
     metadata      |-> metadata(g)]

\* CHOSEN_GRANULARITY is the line of the script its user edits: any option.
InitLoop ==
    /\ pc = "record"
    /\ granularity \in GranularityNames
    /\ db \in Databases
    /\ rec_id = 1
    /\ lead_idx = 0
    /\ w = 0
    /\ num_windows = 0
    /\ dataset_wo_meta = <<>>
    /\ dataset_with_meta = <<>>
    /\ images = {}
    /\ errors = {}
    /\ IdleCall
    /\ IdleScan
    /\ IdleImage
    /\ IdleDrive

\* `continue` of the record loop, or its next iteration.
NextRecord ==
    /\ rec_id' = rec_id + 1
    /\ lead_idx' = 0
    /\ w' = 0
    /\ num_windows' = 0
    /\ pc' = "record"

\* except Exception as e: print(f"Error with record {rec_name}: {e}")
RecordFails ==
    /\ errors' = errors \cup {rec_id}
    /\ NextRecord

\* Line 215 raises: the signal file cannot be read.
ReadRecordFails ==
    /\ pc = "record" /\ rec_id <= NumRecords
    /\ RecordFails
    /\ UNCHANGED <<granularity, driveVars, db, dataset_wo_meta, dataset_with_meta, images,
                   callVars, scanVars, imageVars>>

\* Lines 219-222: no CSV row of the record.
NoCsvRow ==
    /\ pc = "record" /\ rec_id <= NumRecords
    /\ NextRecord
    /\ UNCHANGED <<granularity, driveVars, db, dataset_wo_meta, dataset_with_meta, images, errors,
                   callVars, scanVars, imageVars>>

\* Lines 215-225.
ReadRecord ==
    /\ pc = "record" /\ rec_id <= NumRecords
    /\ num_windows' = db.total_samples \div samples_per_window
    /\ lead_idx' = 0
    /\ w' = 0
    /\ pc' = "lead"
    /\ UNCHANGED <<granularity, driveVars, db, rec_id, dataset_wo_meta, dataset_with_meta, images,
                   errors, callVars, scanVars, imageVars>>

\* The lead loop is over: on to the next record.
LeadsDone ==
    /\ pc = "lead" /\ lead_idx = Len(LEADS)
    /\ NextRecord
    /\ UNCHANGED <<granularity, driveVars, db, dataset_wo_meta, dataset_with_meta, images, errors,
                   callVars, scanVars, imageVars>>

\* Lines 228-230: no annotation file of the lead.
SkipLead ==
    /\ pc = "lead" /\ lead_idx < Len(LEADS)
    /\ LEADS[lead_idx + 1] \notin db.present
    /\ lead_idx' = lead_idx + 1
    /\ UNCHANGED <<pc, granularity, driveVars, db, rec_id, w, num_windows, dataset_wo_meta,
                   dataset_with_meta, images, errors, callVars, scanVars, imageVars>>

\* Line 232 raises: the annotation file cannot be read.
ReadAnnFails ==
    /\ pc = "lead" /\ lead_idx < Len(LEADS)
    /\ LEADS[lead_idx + 1] \in db.present
    /\ RecordFails
    /\ UNCHANGED <<granularity, driveVars, db, dataset_wo_meta, dataset_with_meta, images,
                   callVars, scanVars, imageVars>>

\* Lines 232-234.
ReadAnn ==
    /\ pc = "lead" /\ lead_idx < Len(LEADS)
    /\ LEADS[lead_idx + 1] \in db.present
    /\ w' = 0
    /\ pc' = "window"
    /\ UNCHANGED <<granularity, driveVars, db, rec_id, lead_idx, num_windows, dataset_wo_meta,
                   dataset_with_meta, images, errors, callVars, scanVars, imageVars>>

\* The window loop is over: on to the next lead.
WindowsDone ==
    /\ pc = "window" /\ w = num_windows
    /\ lead_idx' = lead_idx + 1
    /\ w' = 0
    /\ pc' = "lead"
    /\ UNCHANGED <<granularity, driveVars, db, rec_id, num_windows, dataset_wo_meta,
                   dataset_with_meta, images, errors, callVars, scanVars, imageVars>>

\* `continue` of the window loop.
NextWindow ==
    /\ w' = w + 1
    /\ UNCHANGED <<pc, rec_id, lead_idx, num_windows>>

\* Lines 236-337, one iteration of the window loop.  The samples of the window
\* are not held here: the downsampler is applied to 1000 samples every time
\* and returns without raising (SpecDownsample).
ProcessWindow ==
    /\ pc = "window" /\ w < num_windows
    /\ LET lead == LEADS[lead_idx + 1]
           aiw  == window_annotations(db.ann, w)
           sa   == scale_annotations(aiw, granularity)
           wv   == scan_from(sa, 0, new_waves)
           img  == img_filename(rec_id, lead, w)
       IN  IF aiw = <<>>
           THEN /\ NextWindow
                /\ UNCHANGED <<dataset_wo_meta, dataset_with_meta, images, errors>>
           ELSE /\ images' = images \cup {img}
                /\ IF Len(sa) < 3
                   THEN /\ NextWindow
                        /\ UNCHANGED <<dataset_wo_meta, dataset_with_meta, errors>>
                   ELSE \E convo_ann \in wave_conversations(wv),
                           convo_full \in full_conversations(db.row, wv) :
                            IF convo_ann = <<>>
                            THEN \* convo_ann[0] raises IndexError
                                 /\ RecordFails
                                 /\ UNCHANGED <<dataset_wo_meta, dataset_with_meta>>
                            ELSE /\ dataset_wo_meta' = Append(dataset_wo_meta,
                                        example(rec_id, lead, w, "wo_meta",
                                                [dir |-> "", file |-> img],
                                                [convo_ann EXCEPT ![1] = with_image_marker(@)],
                                                granularity))
                                 /\ dataset_with_meta' = Append(dataset_with_meta,
                                        example(rec_id, lead, w, "with_meta",
                                                [dir |-> SAVE_IMG_DIR, file |-> img],
                                                mark_first_human(convo_full), granularity))
                                 /\ NextWindow
                                 /\ UNCHANGED errors
    /\ UNCHANGED <<granularity, driveVars, db, callVars, scanVars, imageVars>>

\* Lines 342-349: the record loop is over and both datasets are written.
SaveFiles ==
    /\ pc = "record" /\ rec_id > NumRecords
    /\ pc' = "done"
    /\ UNCHANGED <<granularity, driveVars, db, rec_id, lead_idx, w, num_windows, dataset_wo_meta,
                   dataset_with_meta, images, errors, callVars, scanVars, imageVars>>

Next ==
    \/ ReadRecordFails
    \/ NoCsvRow
    \/ ReadRecord
    \/ LeadsDone
    \/ SkipLead
    \/ ReadAnnFails
    \/ ReadAnn
    \/ WindowsDone
    \/ ProcessWindow
    \/ SaveFiles

Spec == InitLoop /\ [][Next]_vars /\ WF_vars(Next)

(***************************************************************************)
(* SpecImage: create_patch_aligned_image (lines 78-132), one call.  What   *)
(* plt.savefig writes with bbox_inches='tight' is up to the renderer, so   *)
(* the rendered size is an input.  A size is <<width, height>>.            *)
(***************************************************************************)
MaxDrift == 2        \* pixels the rendered size may be off by

\* Differences between the rendered and the requested size: a few pixels, or a
\* whole patch.
Drifts == (-MaxDrift..MaxDrift) \cup {-PATCH_SIZE, PATCH_SIZE}

\* The size of verify_image.resize((width, height), ...) left unchanged.
resized_size_kept(image_size, size) == image_size

\* Line 120: Image.resize returns an image of the size asked for.
resized_size(image_size, size) == size

LogLine(msg, a, b) == [msg |-> msg, a |-> a, b |-> b]

InitImage ==
    /\ pc = "call_image"
    /\ granularity \in GranularityNames
    /\ call \in {[op       |-> "create_patch_aligned_image",
                  width    |-> FIXED_WIDTH(granularity),
                  height   |-> FIXED_HEIGHT(granularity),
                  rendered |-> <<FIXED_WIDTH(granularity) + dw,
                                 FIXED_HEIGHT(granularity) + dh>>] :
                    dw \in Drifts, dh \in Drifts}
    /\ ret = [raises |-> ""]
    /\ IdleImage
    /\ IdleDrive
    /\ IdleScan
    /\ IdleLoop

\* Lines 83-112: the figure is drawn and saved to output_path.
SaveFigure ==
    /\ pc = "call_image"
    /\ disk' = call.rendered
    /\ pc' = "verify_size"
    /\ UNCHANGED <<granularity, driveVars, call, ret, actual, log, scanVars, loopVars>>

\* Lines 115-121: the saved file is opened and, if its size is not the one
\* asked for, resized and saved again.
VerifySize ==
    /\ pc = "verify_size"
    /\ actual' = disk
    /\ IF disk[1] # call.width \/ disk[2] # call.height
       THEN /\ log' = Append(log, LogLine("Resizing", disk, <<call.width, call.height>>))
            /\ disk' = resized_size(disk, <<call.width, call.height>>)
       ELSE UNCHANGED <<log, disk>>
    /\ pc' = "verify_alignment"
    /\ UNCHANGED <<granularity, driveVars, call, ret, scanVars, loopVars>>

\* Lines 124-130.
VerifyAlignment ==
    /\ pc = "verify_alignment"
    /\ LET width_remainder  == actual[1] % PATCH_SIZE
           height_remainder == actual[2] % PATCH_SIZE
       IN  log' = IF width_remainder = 0 /\ height_remainder = 0
                  THEN Append(log, LogLine("Perfect patch alignment", actual, <<>>))
                  ELSE Append(log, LogLine("Patch alignment issue",
                                           <<width_remainder, height_remainder>>, <<>>))
    /\ pc' = "close"
    /\ UNCHANGED <<granularity, driveVars, call, ret, disk, actual, scanVars, loopVars>>

\* Line 132, and the return.
CloseImage ==
    /\ pc = "close"
    /\ pc' = "returned_image"
    /\ UNCHANGED <<granularity, driveVars, call, ret, imageVars, scanVars, loopVars>>

NextImage == SaveFigure \/ VerifySize \/ VerifyAlignment \/ CloseImage

SpecImage == InitImage /\ [][NextImage]_vars /\ WF_vars(NextImage)

(***************************************************************************)
(* Text: the coordinate tag written by the generator (line 156) and the    *)
(* regular expressions that read it back (patch_aligned_inference.py       *)
(* lines 73-100, serve/app.py lines 81-100).  A text is a sequence of      *)
(* characters; positions count from 1.                                     *)
(***************************************************************************)
\* int() of a text of decimal digits.
RECURSIVE IntOf(_)
IntOf(digits) ==
    IF digits = <<>> THEN 0
    ELSE 10 * IntOf(SubSeq(digits, 1, Len(digits) - 1))
            + (CHOOSE d \in 0..9 : Digits[d + 1] = digits[Len(digits)])

UpperCase ==
    <<"A", "B", "C", "D", "E", "F", "G", "H", "I", "J", "K", "L", "M",
      "N", "O", "P", "Q", "R", "S", "T", "U", "V", "W", "X", "Y", "Z">>

LowerCase ==
    <<"a", "b", "c", "d", "e", "f", "g", "h", "i", "j", "k", "l", "m",
      "n", "o", "p", "q", "r", "s", "t", "u", "v", "w", "x", "y", "z">>

lower_char(c) ==
    IF \E k \in 1..Len(UpperCase) : UpperCase[k] = c
    THEN LowerCase[CHOOSE k \in 1..Len(UpperCase) : UpperCase[k] = c]
    ELSE c

upper_char(c) ==
    IF \E k \in 1..Len(LowerCase) : LowerCase[k] = c
    THEN UpperCase[CHOOSE k \in 1..Len(LowerCase) : LowerCase[k] = c]
    ELSE c

\* str.upper()
text_upper(s) == [k \in 1..Len(s) |-> upper_char(s[k])]

\* The characters of a wave type.
wave_chars(wave_type) ==
    CASE wave_type = "QRS" -> <<"Q", "R", "S">>
      [] wave_type = "P"   -> <<"P">>
      [] wave_type = "T"   -> <<"T">>

\* <points x1="{a}" x2="{b}" x3="{c}" alt="{alt}">{alt}</points>
tag_text(a, b, c, alt) ==
    <<"<", "p", "o", "i", "n", "t", "s", " ", "x", "1", "=", "\"">> \o a
        \o <<"\"", " ", "x", "2", "=", "\"">> \o b
        \o <<"\"", " ", "x", "3", "=", "\"">> \o c
        \o <<"\"", " ", "a", "l", "t", "=", "\"">> \o alt
        \o <<"\"", ">">> \o alt \o <<"<", "/", "p", "o", "i", "n", "t", "s", ">">>

\* Lines 155-156: the text of one tag of the generator.
points_tag(tag) ==
    tag_text(str(tag.x1), str(tag.x2), str(tag.x3), wave_chars(tag.alt))

\* Lines 152-157: the value of an answer turn, from its tags.
RECURSIVE tags_text(_)
tags_text(tags) ==
    IF tags = <<>> THEN <<>> ELSE points_tag(Head(tags)) \o tags_text(Tail(tags))

\* The items of a pattern.  A class is a set of characters, or with neg its
\* complement; cap marks a capturing group.
Lit(s) == [kind |-> "lit", s |-> s, set |-> {}, neg |-> FALSE, cap |-> FALSE]

One(set, cap) == [kind |-> "one", s |-> <<>>, set |-> set, neg |-> FALSE, cap |-> cap]

Plus(set, neg, cap) == [kind |-> "plus", s |-> <<>>, set |-> set, neg |-> neg, cap |-> cap]

Star(set, neg) == [kind |-> "star", s |-> <<>>, set |-> set, neg |-> neg, cap |-> FALSE]

\* .*? : as few characters other than a line break as possible.
LazyDotStar == [kind |-> "lazy", s |-> <<>>, set |-> {"\n"}, neg |-> TRUE, cap |-> FALSE]

\* A literal of a pattern compiled without re.IGNORECASE.
LitExact(s) == [kind |-> "lit_exact", s |-> s, set |-> {}, neg |-> FALSE, cap |-> FALSE]

\* ( and ) of a capturing group that spans several items.
GroupOpen == [kind |-> "open", s |-> <<>>, set |-> {}, neg |-> FALSE, cap |-> FALSE]

GroupClose == [kind |-> "close", s |-> <<>>, set |-> {}, neg |-> FALSE, cap |-> FALSE]

\* (?:sub)? : the items of sub, or nothing.
Opt(sub) == [kind |-> "opt", s |-> <<>>, set |-> {}, neg |-> FALSE, cap |-> FALSE,
             sub |-> sub]

\* \d and \s on the characters of the inputs.
DigitChars == {Digits[k] : k \in 1..Len(Digits)}

SpaceChars == {" ", "\n"}

\* re.IGNORECASE: characters are compared in lower case.
in_class(c, item) ==
    (lower_char(c) \in {lower_char(x) : x \in item.set}) # item.neg

lit_at(t, p, s) ==
    /\ p + Len(s) - 1 <= Len(t)
    /\ \A k \in 1..Len(s) : lower_char(t[p + k - 1]) = lower_char(s[k])

exact_at(t, p, s) ==
    /\ p + Len(s) - 1 <= Len(t)
    /\ \A k \in 1..Len(s) : t[p + k - 1] = s[k]

\* The position after the longest run of characters of the item's class at p.
run_end(t, p, item) ==
    CHOOSE q \in p..(Len(t) + 1) :
        /\ q > Len(t) \/ ~in_class(t[q], item)
        /\ \A r \in p..(q - 1) : in_class(t[r], item)

NoMatch == [ok |-> FALSE, end |-> 0, caps |-> <<>>]

\* The pieces of the positions lo..hi, joined.
RECURSIVE joined(_, _, _)
joined(pieces, lo, hi) ==
    IF lo > hi THEN <<>>
    ELSE IF lo = hi THEN pieces[lo]
    ELSE LET mid == (lo + hi) \div 2
         IN  joined(pieces, lo, mid) \o joined(pieces, mid + 1, hi)

\* The backtracking matcher keeps the alternatives still open as a list, the
\* one the re module tries first at the head: a candidate is the items still
\* to match, the position in them and in the text, and the groups so far.
finished(c) == c.k > Len(c.items)

\* The ends of a greedy repetition, the longest first.
match_greedy(t, c, e, lo) ==
    IF e < lo THEN <<>>
    ELSE [j \in 1..(e - lo + 1) |->
             [c EXCEPT !.k = @ + 1, !.p = e - j + 1,
                       !.caps = IF c.items[c.k].cap
                                THEN Append(@, SubSeq(t, c.p, e - j))
                                ELSE @]]

\* The ends of a lazy repetition, the shortest first.
match_lazy(t, c, e, hi) ==
    IF e > hi THEN <<>>
    ELSE [j \in 1..(hi - e + 1) |-> [c EXCEPT !.k = @ + 1, !.p = e + j - 1]]

\* What a candidate becomes when its next item is matched: the alternatives
\* in the order the re module tries them, none when the item does not match.
advance(t, c) ==
    IF finished(c) THEN <<c>>
    ELSE LET item == c.items[c.k]
             p == c.p
         IN  CASE item.kind = "lit" ->
                    IF lit_at(t, p, item.s)
                    THEN <<[c EXCEPT !.k = @ + 1, !.p = p + Len(item.s)]>>
                    ELSE <<>>
               [] item.kind = "one" ->
                    IF p <= Len(t) /\ in_class(t[p], item)
                    THEN <<[c EXCEPT !.k = @ + 1, !.p = p + 1,
                                     !.caps = IF item.cap THEN Append(@, <<t[p]>>)
                                              ELSE @]>>
                    ELSE <<>>
               [] item.kind = "plus" -> match_greedy(t, c, run_end(t, p, item), p + 1)
               [] item.kind = "star" -> match_greedy(t, c, run_end(t, p, item), p)
               [] item.kind = "lazy" -> match_lazy(t, c, p, run_end(t, p, item))
               [] item.kind = "lit_exact" ->
                    IF exact_at(t, p, item.s)
                    THEN <<[c EXCEPT !.k = @ + 1, !.p = p + Len(item.s)]>>
                    ELSE <<>>
               [] item.kind = "open" ->
                    <<[c EXCEPT !.k = @ + 1, !.caps = Append(@, p)]>>
               [] item.kind = "close" ->
                    <<[c EXCEPT !.k = @ + 1,
                                !.caps = [@ EXCEPT ![Len(@)] = SubSeq(t, @, p - 1)]]>>
               [] item.kind = "opt" ->
                    <<[c EXCEPT !.items = item.sub \o SubSeq(@, c.k + 1, Len(@)),
                                !.k = 1],
                      [c EXCEPT !.k = @ + 1]>>

\* The candidates up to the first finished one: those after it are never tried.
tried(cands) ==
    LET done == {j \in 1..Len(cands) : finished(cands[j])}
    IN  IF done = {} THEN cands
        ELSE SubSeq(cands, 1, CHOOSE j \in done : \A o \in done : j <= o)

RECURSIVE match_from(_, _)
match_from(t, cands) ==
    IF cands = <<>> THEN NoMatch
    ELSE IF finished(cands[1])
    THEN [ok |-> TRUE, end |-> cands[1].p, caps |-> cands[1].caps]
    ELSE match_from(t, tried(joined([j \in 1..Len(cands) |-> advance(t, cands[j])],
                                    1, Len(cands))))

\* The first match of items[k..] at position p.
match_items(items, k, t, p, caps) ==
    match_from(t, <<[items |-> items, k |-> k, p |-> p, caps |-> caps]>>)

\* The match at every position of the text, as a sequence.
match_table(items, t) ==
    [q \in 1..(Len(t) + 1) |-> match_items(items, 1, t, q, <<>>)] \o <<>>

\* re.findall: the groups of the non-overlapping matches, leftmost first.
RECURSIVE findall_from(_, _)
findall_from(table, pos) ==
    IF \A q \in pos..Len(table) : ~table[q].ok THEN <<>>
    ELSE LET at == CHOOSE q \in pos..Len(table) :
                       table[q].ok /\ \A o \in pos..(q - 1) : ~table[o].ok
             m == table[at]
         IN  <<m.caps>> \o findall_from(table, IF m.end = at THEN at + 1 ELSE m.end)

findall(items, t) == findall_from(match_table(items, t), 1)

\* x1="(\d+)"\s+x2="(\d+)"\s+x3="(\d+)"
AttrItems ==
    <<Lit(<<"x", "1", "=", "\"">>), Plus(DigitChars, FALSE, TRUE), Lit(<<"\"">>),
      Plus(SpaceChars, FALSE, FALSE),
      Lit(<<"x", "2", "=", "\"">>), Plus(DigitChars, FALSE, TRUE), Lit(<<"\"">>),
      Plus(SpaceChars, FALSE, FALSE),
      Lit(<<"x", "3", "=", "\"">>), Plus(DigitChars, FALSE, TRUE), Lit(<<"\"">>)>>

\* alt="([^"]+)"
AltItems ==
    <<Lit(<<"a", "l", "t", "=", "\"">>), Plus({"\""}, TRUE, TRUE), Lit(<<"\"">>)>>

\* <points\s+x1="(\d+)"\s+x2="(\d+)"\s+x3="(\d+)"\s+alt="([^"]+)"[^>]*>
PointsPattern ==
    <<Lit(<<"<", "p", "o", "i", "n", "t", "s">>), Plus(SpaceChars, FALSE, FALSE)>>
        \o AttrItems \o <<Plus(SpaceChars, FALSE, FALSE)>> \o AltItems
        \o <<Star({">"}, TRUE), Lit(<<">">>)>>

\* x1="(\d+)"\s+x2="(\d+)"\s+x3="(\d+)".*?alt="([^"]+)"
AttrPattern == AttrItems \o <<LazyDotStar>> \o AltItems

\* (\d+)\s+(\d+)\s+(\d+).*?([PQT])
FallbackPattern ==
    <<Plus(DigitChars, FALSE, TRUE), Plus(SpaceChars, FALSE, FALSE),
      Plus(DigitChars, FALSE, TRUE), Plus(SpaceChars, FALSE, FALSE),
      Plus(DigitChars, FALSE, TRUE), LazyDotStar, One({"P", "Q", "T"}, TRUE)>>

ValidLabels == {<<"P">>, <<"Q", "R", "S">>, <<"T">>}

\* The loop body with the validation left out.
RECURSIVE validated_without_check(_)
validated_without_check(matches) ==
    IF matches = <<>> THEN <<>>
    ELSE LET match == Head(matches)
         IN  <<<<IntOf(match[1]), IntOf(match[2]), IntOf(match[3]), text_upper(match[4])>>>>
                 \o validated_without_check(Tail(matches))

\* Lines 89-98: the matches of one pattern that pass the validation.  A group
\* (\d+) always converts, and a match has four groups, so the except branch is
\* not taken.
RECURSIVE validated(_)
validated(matches) ==
    IF matches = <<>> THEN <<>>
    ELSE LET match     == Head(matches)
             x1        == IntOf(match[1])
             x2        == IntOf(match[2])
             x3        == IntOf(match[3])
             wave_type == text_upper(match[4])
         IN  (IF 0 <= x1 /\ x1 <= x2 /\ x2 <= x3 /\ wave_type \in ValidLabels
              THEN <<<<x1, x2, x3, wave_type>>>> ELSE <<>>)
                 \o validated(Tail(matches))

\* for pattern in patterns: ... coordinates.append(...)
RECURSIVE extract_with(_, _)
extract_with(patterns, text) ==
    IF patterns = <<>> THEN <<>>
    ELSE validated(findall(Head(patterns), text)) \o extract_with(Tail(patterns), text)

\* patch_aligned_inference.py lines 73-100.
extract_coordinates_advanced(text) ==
    extract_with(<<PointsPattern, AttrPattern, FallbackPattern>>, text)

\* serve/app.py lines 81-100.
extract_coordinates_from_response(text) ==
    extract_with(<<PointsPattern, AttrPattern>>, text)

(***************************************************************************)
(* SpecParse: the two triplet parsers on bounded texts, and SpecRoundTrip: *)
(* a triplet written by build_patch_aware_questions and read back          *)
(***************************************************************************)
MaxFragments == 2    \* pieces a text is put together from

MaxCoord == 3        \* small coordinates of the round trip

\* A lower-case label, as in the spec's example.
TagLowerQrs == tag_text(str(5), str(10), str(100), <<"q", "r", "s">>)

\* Coordinates out of order.
TagOutOfOrder == tag_text(str(10), str(5), str(1), <<"P">>)

\* A label that is no wave type.
TagUnknownLabel == tag_text(str(1), str(2), str(3), <<"U">>)

\* One-decimal floats.
TagFloat ==
    tag_text(<<"1", "2", ".", "5">>, <<"3", "4", ".", "5">>, <<"5", "6", ".", "5">>,
             <<"T">>)

\* The attributes without the points element: x1="1"  x2="2" x3="3" and alt="T"
AttrsOnly ==
    <<"x", "1", "=", "\"", "1", "\"", " ", " ", "x", "2", "=", "\"", "2", "\"", " ",
      "x", "3", "=", "\"", "3", "\"", " ", "a", "n", "d", " ", "a", "l", "t", "=",
      "\"", "T", "\"">>

\* A tag cut short: <points x1="4" x2="5"
TagTruncated ==
    <<"<", "p", "o", "i", "n", "t", "s", " ", "x", "1", "=", "\"", "4", "\"", " ",
      "x", "2", "=", "\"", "5", "\"">>

\* Prose with three numbers and later a letter p: see 10 20 30 p
ProseP == <<"s", "e", "e", " ", "1", "0", " ", "2", "0", " ", "3", "0", " ", "p">>

\* 7 8 9 q
ProseQ == <<"7", " ", "8", " ", "9", " ", "q">>

\* 30 20 10 t
ProseOutOfOrder == <<"3", "0", " ", "2", "0", " ", "1", "0", " ", "t">>

\* Model commentary: Some text
Commentary == <<"S", "o", "m", "e", " ", "t", "e", "x", "t", " ">>

Newline == <<"\n">>

Fragments ==
    {points_tag([x1 |-> 12, x2 |-> 34, x3 |-> 56, alt |-> "P", label |-> "P"]),
     TagLowerQrs, TagOutOfOrder, TagUnknownLabel, TagFloat, AttrsOnly, TagTruncated,
     ProseP, ProseQ, ProseOutOfOrder, Commentary, Newline}

\* The texts put together from at most n of the fragments.
RECURSIVE TextsOf(_, _)
TextsOf(fragments, n) ==
    IF n = 0 THEN {<<>>}
    ELSE LET shorter == TextsOf(fragments, n - 1)
         IN  shorter \cup {t \o f : t \in shorter, f \in fragments}

ParseInputs == TextsOf(Fragments, MaxFragments)

InitParse ==
    /\ pc = "call_parse"
    /\ granularity = CHOSEN_GRANULARITY
    /\ call \in {[op |-> "parse", parser |-> p, text |-> t] :
                    p \in {"advanced", "from_response"}, t \in ParseInputs}
    /\ ret = [raises |-> ""]
    /\ IdleScan
    /\ IdleImage
    /\ IdleDrive
    /\ IdleLoop

Parse ==
    /\ pc = "call_parse"
    /\ ret' = [raises      |-> "",
               coordinates |-> IF call.parser = "advanced"
                               THEN extract_coordinates_advanced(call.text)
                               ELSE extract_coordinates_from_response(call.text)]
    /\ pc' = "returned_parse"
    /\ UNCHANGED <<granularity, driveVars, call, scanVars, loopVars, imageVars>>

SpecParse == InitParse /\ [][Parse]_vars

CoordVals == (0..MaxCoord) \cup {12, 34, 56, 503}

InitRoundTrip ==
    /\ pc = "call_round_trip"
    /\ granularity = CHOSEN_GRANULARITY
    /\ call \in {[op |-> "round_trip", triplet |-> <<x1, x2, x3>>, wave_type |-> wt] :
                    x1 \in CoordVals, x2 \in CoordVals, x3 \in CoordVals,
                    wt \in WaveTypes}
    /\ call.triplet[1] <= call.triplet[2]
    /\ call.triplet[2] <= call.triplet[3]
    /\ ret = [raises |-> ""]
    /\ IdleScan
    /\ IdleImage
    /\ IdleDrive
    /\ IdleLoop

\* The answer turn of the one wave type that has a triplet, as text, parsed.
RoundTrip ==
    /\ pc = "call_round_trip"
    /\ LET waves_dict == [new_waves EXCEPT ![call.wave_type] = <<call.triplet>>]
           convo      == build_patch_aware_questions(waves_dict, WAVE_ORDER)
           text       == tags_text(convo[2].tags)
       IN  ret' = [raises        |-> "",
                   text          |-> text,
                   advanced      |-> extract_coordinates_advanced(text),
                   from_response |-> extract_coordinates_from_response(text)]
    /\ pc' = "returned_round_trip"
    /\ UNCHANGED <<granularity, driveVars, call, scanVars, loopVars, imageVars>>

SpecRoundTrip == InitRoundTrip /\ [][RoundTrip]_vars

(***************************************************************************)
(* SpecVision: what the image preprocessing hands to process_vision_info   *)
(* (patch_aligned_inference.py lines 28-71, fixed_inference_script.py      *)
(* lines 21-59, dataset/data_utils.py lines 71-102).  A content item and a *)
(* message are dicts: functions from their keys.                           *)
(***************************************************************************)
MaxItems == 2        \* items of a message

\* The image files on disk and their sizes.
Files == ("ecg.png" :> <<504, 224>>) @@ ("photo.png" :> <<500, 220>>)

\* A reference to ecg.png that PIL's Image.open cannot open as a path.
FileUri == "file://ecg.png"

ImageRefs == DOMAIN Files \cup {FileUri}

\* Whether Image.open(ref) returns; otherwise it raises FileNotFoundError.
can_open(ref) == ref \in DOMAIN Files

\* d[k] = v and d.pop(k, None) on a copy of d.
Put(d, k, v) == [x \in DOMAIN d \cup {k} |-> IF x = k THEN v ELSE d[x]]

Pop(d, k) == [x \in DOMAIN d \ {k} |-> d[x]]

\* item.get('type') == 'image'
is_image(item) == "type" \in DOMAIN item /\ item["type"] = "image"

\* The new item of an image that opened: its own size, no pixel limits.
preserved(item) ==
    LET size == Files[item["image"]]
    IN  Pop(Pop(Put(Put(item, "resized_width", size[1]), "resized_height", size[2]),
                "min_pixels"), "max_pixels")

Handed(messages) == [raises |-> "", handed |-> messages]

OpenFails == [raises |-> "FileNotFoundError", handed |-> <<>>]

has_content(msg) == "content" \in DOMAIN msg

\* patch_aligned_inference.py lines 28-71: Image.open is not guarded.
process_vision_info_with_perfect_alignment(messages) ==
    IF \E m \in 1..Len(messages) :
          /\ has_content(messages[m])
          /\ \E k \in 1..Len(messages[m]["content"]) :
                LET item == messages[m]["content"][k]
                IN  is_image(item) /\ ~can_open(item["image"])
    THEN OpenFails
    ELSE Handed([m \in 1..Len(messages) |->
            IF has_content(messages[m])
            THEN Put(messages[m], "content",
                     [k \in 1..Len(messages[m]["content"]) |->
                        LET item == messages[m]["content"][k]
                        IN  IF is_image(item) THEN preserved(item) ELSE item])
            ELSE messages[m]])

\* fixed_inference_script.py lines 21-59: an image that does not open is
\* passed on as the caller gave it (lines 50-52).
process_vision_info_with_original_dimensions(messages) ==
    Handed([m \in 1..Len(messages) |->
        IF has_content(messages[m])
        THEN Put(messages[m], "content",
                 [k \in 1..Len(messages[m]["content"]) |->
                    LET item == messages[m]["content"][k]
                    IN  IF is_image(item) /\ can_open(item["image"])
                        THEN preserved(item) ELSE item])
        ELSE messages[m]])

\* dataset/data_utils.py lines 71-102: the limits and the requested size are
\* not used.
get_image_info(image_path, min_pixel, max_pixel, width, height) ==
    IF ~can_open(image_path) THEN OpenFails
    ELSE LET content == ("type" :> "image") @@ ("image" :> image_path)
                            @@ ("resized_width" :> Files[image_path][1])
                            @@ ("resized_height" :> Files[image_path][2])
         IN  Handed(<<("role" :> "user") @@ ("content" :> <<content>>)>>)

\* The items a caller may give: an image alone, with pixel limits, with a
\* requested size, or with both; a text, a video and an item without a type.
MIN_PIXELS == 512 * 28 * 28

MAX_PIXELS == 1280 * 28 * 28

ImageItems ==
    UNION {LET plain   == ("type" :> "image") @@ ("image" :> ref)
               limited == Put(Put(plain, "min_pixels", MIN_PIXELS), "max_pixels", MAX_PIXELS)
           IN  {plain, limited,
                Put(Put(plain, "resized_width", 252), "resized_height", 112),
                Put(Put(limited, "resized_width", 252), "resized_height", 112)} :
              ref \in ImageRefs}

OtherItems ==
    {("type" :> "text") @@ ("text" :> "Find the QRS complexes"),
     ("type" :> "video") @@ ("video" :> "clip.mp4") @@ ("max_pixels" :> MAX_PIXELS),
     ("text" :> "no type")}

Conversations ==
    UNION {{<<("role" :> "user") @@ ("content" :> c)>>,
            <<("role" :> "system") @@ ("text" :> "no content"),
              ("role" :> "user") @@ ("content" :> c)>>} :
              c \in SeqsUpTo(ImageItems \cup OtherItems, MaxItems)}

InitVision ==
    /\ pc = "call_vision"
    /\ granularity = CHOSEN_GRANULARITY
    /\ call \in {[op |-> f, messages |-> msgs] :
                    f \in {"process_vision_info_with_perfect_alignment",
                           "process_vision_info_with_original_dimensions"},
                    msgs \in Conversations}
               \cup {[op |-> "get_image_info", image_path |-> ref,
                      min_pixel |-> MIN_PIXELS, max_pixel |-> MAX_PIXELS,
                      width |-> size[1], height |-> size[2]] :
                        ref \in ImageRefs, size \in {<<0, 0>>, <<252, 112>>}}
    /\ ret = [raises |-> ""]
    /\ IdleImage
    /\ IdleDrive
    /\ IdleScan
    /\ IdleLoop

PerfectAlignment ==
    /\ pc = "call_vision"
    /\ call.op = "process_vision_info_with_perfect_alignment"
    /\ ret' = process_vision_info_with_perfect_alignment(call.messages)
    /\ pc' = "returned_vision"
    /\ UNCHANGED <<granularity, driveVars, call, imageVars, scanVars, loopVars>>

OriginalDimensions ==
    /\ pc = "call_vision"
    /\ call.op = "process_vision_info_with_original_dimensions"
    /\ ret' = process_vision_info_with_original_dimensions(call.messages)
    /\ pc' = "returned_vision"
    /\ UNCHANGED <<granularity, driveVars, call, imageVars, scanVars, loopVars>>

GetImageInfo ==
    /\ pc = "call_vision"
    /\ call.op = "get_image_info"
    /\ ret' = get_image_info(call.image_path, call.min_pixel, call.max_pixel,
                             call.width, call.height)
    /\ pc' = "returned_vision"
    /\ UNCHANGED <<granularity, driveVars, call, imageVars, scanVars, loopVars>>

NextVision == PerfectAlignment \/ OriginalDimensions \/ GetImageInfo

SpecVision == InitVision /\ [][NextVision]_vars

(***************************************************************************)
(* Python floats                                                           *)
(*                                                                         *)
(* A float is an IEEE 754 double, kept as the record [neg, m, e] for the   *)
(* number (-1)^neg * m * 2^e, with m odd (m and e are 0 for zero).  m has  *)
(* up to 53 bits, so it is a natural kept by its digits to the base 2^15, *)
(* the least significant first and no zero at the top (<<>> is 0).  Every  *)
(* operation is computed exactly and rounded once to 53 bits, ties to the  *)
(* even mantissa, as the hardware does; the numbers of the scripts are far *)
(* from the overflow and underflow of a double.                            *)
(***************************************************************************)
Base == 2^15

bn_trim(a) ==
    LET nz == {k \in 1..Len(a) : a[k] # 0}
    IN  IF nz = {} THEN <<>>
        ELSE SubSeq(a, 1, CHOOSE k \in nz : \A o \in nz : o <= k)

\* The natural of an integer 0 <= n < 2^31, and back.
bn_of(n) ==
    bn_trim(<<n % Base, (n \div Base) % Base, n \div (Base * Base)>>)

bn_int(a) ==
    (IF Len(a) >= 1 THEN a[1] ELSE 0)
        + (IF Len(a) >= 2 THEN a[2] * Base ELSE 0)
        + (IF Len(a) >= 3 THEN a[3] * Base * Base ELSE 0)

bn_digit(a, k) == IF k <= Len(a) THEN a[k] ELSE 0

RECURSIVE bn_add_from(_, _, _, _)
bn_add_from(a, b, k, carry) ==
    IF k > Len(a) /\ k > Len(b)
    THEN (IF carry = 0 THEN <<>> ELSE <<carry>>)
    ELSE LET s == bn_digit(a, k) + bn_digit(b, k) + carry
         IN  <<s % Base>> \o bn_add_from(a, b, k + 1, s \div Base)

bn_add(a, b) == bn_add_from(a, b, 1, 0)

\* a - b for a >= b.
RECURSIVE bn_sub_from(_, _, _, _)
bn_sub_from(a, b, k, borrow) ==
    IF k > Len(a) THEN <<>>
    ELSE LET s == a[k] - bn_digit(b, k) - borrow
         IN  <<s % Base>> \o bn_sub_from(a, b, k + 1, IF s < 0 THEN 1 ELSE 0)

bn_sub(a, b) == bn_trim(bn_sub_from(a, b, 1, 0))

\* -1, 0 or 1 as a is less than, equal to or greater than b.
bn_cmp(a, b) ==
    IF Len(a) # Len(b) THEN (IF Len(a) < Len(b) THEN -1 ELSE 1)
    ELSE LET diff == {k \in 1..Len(a) : a[k] # b[k]}
         IN  IF diff = {} THEN 0
             ELSE LET top == CHOOSE k \in diff : \A o \in diff : o <= k
                  IN  IF a[top] < b[top] THEN -1 ELSE 1

\* a * f for 0 <= f <= Base.
RECURSIVE bn_mul_small_from(_, _, _, _)
bn_mul_small_from(a, f, k, carry) ==
    IF k > Len(a) THEN (IF carry = 0 THEN <<>> ELSE <<carry>>)
    ELSE LET s == a[k] * f + carry
         IN  <<s % Base>> \o bn_mul_small_from(a, f, k + 1, s \div Base)

bn_mul_small(a, f) == bn_trim(bn_mul_small_from(a, f, 1, 0))

\* a * Base^n.
bn_shl_digits(a, n) == IF a = <<>> THEN <<>> ELSE [k \in 1..n |-> 0] \o a

RECURSIVE bn_mul_from(_, _, _)
bn_mul_from(a, b, k) ==
    IF k > Len(b) THEN <<>>
    ELSE bn_add(bn_shl_digits(bn_mul_small(a, b[k]), k - 1), bn_mul_from(a, b, k + 1))

bn_mul(a, b) == bn_mul_from(a, b, 1)

\* a * 2^bits.
bn_shl(a, bits) == bn_mul_small(bn_shl_digits(a, bits \div 15), 2^(bits % 15))

\* Base^p modulo d.
RECURSIVE bn_pow_mod(_, _)
bn_pow_mod(p, d) ==
    IF p = 0 THEN 1 % d
    ELSE IF p = 1 THEN Base % d
    ELSE (bn_pow_mod(p \div 2, d) * bn_pow_mod(p - p \div 2, d)) % d

\* The natural of the digits lo..hi of a, modulo 0 < d <= Base.
RECURSIVE bn_mod_of(_, _, _, _)
bn_mod_of(a, lo, hi, d) ==
    IF lo > hi THEN 0
    ELSE IF lo = hi THEN a[lo] % d
    ELSE LET mid == (lo + hi) \div 2
         IN  (bn_mod_of(a, mid + 1, hi, d) * bn_pow_mod(mid + 1 - lo, d)
                  + bn_mod_of(a, lo, mid, d)) % d

\* Quotient and remainder of a by 0 < d <= Base: the long division, the
\* digit k of the quotient from the remainder of the digits above it.
bn_divmod(a, d) ==
    [q |-> bn_trim([k \in 1..Len(a) |->
                       (bn_mod_of(a, k + 1, Len(a), d) * Base + a[k]) \div d]),
     r |-> bn_mod_of(a, 1, Len(a), d)]

\* a \div 2^bits, and whether a remainder was dropped.
bn_shr(a, bits) ==
    LET n    == Min(bits \div 15, Len(a))
        qr   == bn_divmod(SubSeq(a, n + 1, Len(a)), 2^(bits % 15))
    IN  IF bits \div 15 >= Len(a)
        THEN [q |-> <<>>, sticky |-> a # <<>>]
        ELSE [q |-> qr.q,
              sticky |-> qr.r # 0 \/ \E k \in 1..n : a[k] # 0]

bn_odd(a) == a # <<>> /\ a[1] % 2 = 1

\* The number of binary digits of a.
bn_bitlen(a) ==
    IF a = <<>> THEN 0
    ELSE 15 * (Len(a) - 1)
             + (CHOOSE n \in 1..15 : 2^(n - 1) <= a[Len(a)] /\ a[Len(a)] < 2^n)

\* The zero bits at the low end of a # 0.
bn_low_zeros(a) ==
    LET first == CHOOSE k \in 1..Len(a) : a[k] # 0 /\ \A o \in 1..(k - 1) : a[o] = 0
    IN  15 * (first - 1)
            + (CHOOSE n \in 0..14 : a[first] % 2^n = 0 /\ a[first] % 2^(n + 1) # 0)

\* (a + a little more, if sticky) / 2^bits rounded to the nearest natural, a
\* half to the even one.
bn_round_shr(a, bits, sticky) ==
    IF bits = 0 THEN a
    ELSE LET s     == bn_shr(a, bits - 1)
             q     == bn_shr(s.q, 1).q
             above == s.sticky \/ sticky
         IN  IF bn_odd(s.q) /\ (above \/ bn_odd(q)) THEN bn_add(q, <<1>>) ELSE q

\* The natural written with the decimal digits s.
RECURSIVE bn_of_digits(_)
bn_of_digits(s) ==
    IF s = <<>> THEN <<>>
    ELSE bn_add(bn_mul_small(bn_of_digits(SubSeq(s, 1, Len(s) - 1)), 10),
                bn_of(IntOf(<<s[Len(s)]>>)))

\* a \div 10^d, and whether a remainder was dropped.
RECURSIVE bn_div_pow10(_, _)
bn_div_pow10(a, d) ==
    IF d = 0 THEN [q |-> a, sticky |-> FALSE]
    ELSE LET qr   == bn_divmod(a, 10)
             rest == bn_div_pow10(qr.q, d - 1)
         IN  [q |-> rest.q, sticky |-> rest.sticky \/ qr.r # 0]

\* The float of m * 2^e when m has at most 53 bits.
float_exact(neg, m, e) ==
    IF m = <<>> THEN [neg |-> neg, m |-> <<>>, e |-> 0]
    ELSE LET z == bn_low_zeros(m)
         IN  [neg |-> neg, m |-> bn_shr(m, z).q, e |-> e + z]

\* The float nearest to m * 2^e (and a little more, if sticky; m has then 55
\* bits or more).
float_round(neg, m, e, sticky) ==
    IF m = <<>> THEN float_exact(neg, m, e)
    ELSE LET over == Max(bn_bitlen(m) - 53, 0)
         IN  float_exact(neg, bn_round_shr(m, over, sticky), e + over)

float_zero == [neg |-> FALSE, m |-> <<>>, e |-> 0]

\* float(n) of an integer.
float_of_int(n) == float_exact(n < 0, bn_of(IF n < 0 THEN -n ELSE n), 0)

\* The float nearest to n / 10^d, n a natural: what float() and a literal give.
float_of_decimal(n, d) ==
    IF n = <<>> THEN float_exact(FALSE, n, 0)
    ELSE LET shift == 15 * (5 + d)
             qs    == bn_div_pow10(bn_shl_digits(n, 5 + d), d)
         IN  float_round(FALSE, qs.q, -shift, qs.sticky)

\* float(s) of a text of digits with an optional point and digits after it.
float(s) ==
    LET dots == {p \in 1..Len(s) : s[p] = "."}
        dot  == IF dots = {} THEN Len(s) + 1 ELSE CHOOSE p \in dots : TRUE
    IN  float_of_decimal(bn_of_digits(SubSeq(s, 1, dot - 1)
                                       \o SubSeq(s, dot + 1, Len(s))),
                         IF dots = {} THEN 0 ELSE Len(s) - dot)

\* num / den of two integers, 0 <= num and 0 < den <= 2^15.
float_of_ratio(num, den) ==
    LET qr == bn_divmod(bn_shl_digits(bn_of(num), 5), den)
    IN  float_round(FALSE, qr.q, -75, qr.r # 0)

\* x / n for an integer 0 < n <= 2^15.
float_div_int(x, n) ==
    IF x.m = <<>> THEN x
    ELSE LET qr == bn_divmod(bn_shl_digits(x.m, 5), n)
         IN  float_round(x.neg, qr.q, x.e - 75, qr.r # 0)

float_neg(x) == [x EXCEPT !.neg = ~@]

float_abs(x) == [x EXCEPT !.neg = FALSE]

\* -1, 0 or 1 as |x| is less than, equal to or greater than |y|.
float_cmp_abs(x, y) ==
    LET e == Min(x.e, y.e)
    IN  bn_cmp(bn_shl(x.m, x.e - e), bn_shl(y.m, y.e - e))

\* x < y
float_lt(x, y) ==
    LET c == float_cmp_abs(x, y)
    IN  CASE x.m = <<>> /\ y.m = <<>> -> FALSE
          [] x.m = <<>> /\ y.m # <<>> -> ~y.neg
          [] x.m # <<>> /\ y.m = <<>> -> x.neg
          [] OTHER -> IF x.neg # y.neg THEN x.neg
                      ELSE IF x.neg THEN c = 1 ELSE c = -1

\* x + y
float_add(x, y) ==
    LET e  == Min(x.e, y.e)
        mx == bn_shl(x.m, x.e - e)
        my == bn_shl(y.m, y.e - e)
        c  == bn_cmp(mx, my)
    IN  CASE x.m = <<>> /\ y.m = <<>> -> [float_zero EXCEPT !.neg = x.neg /\ y.neg]
          [] x.m = <<>> /\ y.m # <<>> -> y
          [] x.m # <<>> /\ y.m = <<>> -> x
          [] OTHER ->
               IF x.neg = y.neg THEN float_round(x.neg, bn_add(mx, my), e, FALSE)
               ELSE IF c = 0 THEN float_zero
               ELSE IF c = 1 THEN float_round(x.neg, bn_sub(mx, my), e, FALSE)
               ELSE float_round(y.neg, bn_sub(my, mx), e, FALSE)

\* x - y
float_sub(x, y) == float_add(x, float_neg(y))

\* x * y
float_mul(x, y) == float_round(x.neg # y.neg, bn_mul(x.m, y.m), x.e + y.e, FALSE)

\* int(x): the integer part.
float_int(x) ==
    LET n == bn_int(IF x.e >= 0 THEN bn_shl(x.m, x.e) ELSE bn_shr(x.m, -x.e).q)
    IN  IF x.neg THEN -n ELSE n

\* sum(xs): the int 0 and then the floats, added from the left (the plain
\* loop of CPython before 3.12).
RECURSIVE float_sum_from(_, _, _)
float_sum_from(xs, k, acc) ==
    IF k > Len(xs) THEN acc ELSE float_sum_from(xs, k + 1, float_add(acc, xs[k]))

float_sum(xs) == float_sum_from(xs, 1, float_zero)

\* |x| * 10 rounded to the nearest natural, a half to the even one: the
\* digits "{:.1f}" prints and round(x, 1) keeps.
tenths_of(x) ==
    LET m == bn_mul_small(x.m, 10)
    IN  IF x.e >= 0 THEN bn_shl(m, x.e) ELSE bn_round_shr(m, -x.e, FALSE)

\* round(x, 1): the float nearest to the rounded decimal.
float_round1(x) ==
    IF x.m = <<>> THEN x
    ELSE [float_of_decimal(tenths_of(x), 1) EXCEPT !.neg = x.neg]

\* f"{x:.1f}"
float_format1(x) ==
    LET t == bn_int(tenths_of(x))
    IN  (IF x.neg THEN <<"-">> ELSE <<>>)
            \o str(t \div 10) \o <<".">> \o str(t % 10)

(***************************************************************************)
(* enhance_ecg_dataset.py: augmentation of a dataset                       *)
(*                                                                         *)
(* A sample is a record with an id, an image and its conversations; the    *)
(* value of a turn is a text.  The texts the parser reads are sequences of *)
(* one-character strings; a text the script only writes is a sequence of   *)
(* pieces whose concatenation is the text.                                 *)
(***************************************************************************)

\* Line 16: x\d+="(\d+(?:\.\d+)?)" , compiled without flags.
CoordinatePattern ==
    <<LitExact(<<"x">>), Plus(DigitChars, FALSE, FALSE), LitExact(<<"=", "\"">>),
      GroupOpen, Plus(DigitChars, FALSE, FALSE),
      Opt(<<LitExact(<<".">>), Plus(DigitChars, FALSE, FALSE)>>), GroupClose,
      LitExact(<<"\"">>)>>

\* Line 131: alt="([^"]+)" , compiled without flags.
AltPattern ==
    <<LitExact(<<"a", "l", "t", "=", "\"">>), Plus({"\""}, TRUE, TRUE),
      LitExact(<<"\"">>)>>

\* Lines 14-17: with one group, re.findall returns the group's texts.
extract_coordinates_from_text(text) ==
    LET found == findall(CoordinatePattern, text)
    IN  [k \in 1..Len(found) |-> found[k][1]]

\* Line 126: '<points' in value.
contains(text, s) == \E p \in 1..Len(text) : exact_at(text, p, s)

\* Lines 129-133: the first alt attribute of the value, "wave" without one.
wave_type_of(value) ==
    LET alt_match == findall(AltPattern, value)
    IN  IF contains(value, <<"a", "l", "t", "=", "\"">>) /\ alt_match # <<>>
        THEN alt_match[1][1]
        ELSE <<"w", "a", "v", "e">>

\* int(x) of line 33 raises ValueError unless the text is all digits.
int_raises(x) == \E k \in 1..Len(x) : x[k] \notin DigitChars

\* Lines 19-38.
create_temporal_mapping_sample(original_sample, coords) ==
    LET x1 == coords[1]
        x2 == coords[2]
        x3 == coords[3]
        ms(x) == str(IntOf(x) * 2)
    IN  [image |-> original_sample.image,
         conversations |-> <<
            [from |-> "human",
             value |-> <<"<image>Convert these ECG coordinates to milliseconds. Remember: each pixel = 2ms of time. Coordinates: x1=">>
                       \o x1 \o <<", x2=">> \o x2 \o <<", x3=">> \o x3],
            [from |-> "gpt",
             value |-> <<"Converting to milliseconds: x1=">> \o x1
                       \o <<" pixels = ">> \o ms(x1) \o <<"ms, x2=">> \o x2
                       \o <<" pixels = ">> \o ms(x2) \o <<"ms, x3=">> \o x3
                       \o <<" pixels = ">> \o ms(x3)
                       \o <<"ms. Timeline: start at ">> \o ms(x1)
                       \o <<"ms, peak at ">> \o ms(x2)
                       \o <<"ms, end at ">> \o ms(x3) \o <<"ms.">>]>>]

\* Lines 40-57.
create_coordinate_verification_sample(original_sample, coords, wave_type) ==
    [image |-> original_sample.image,
     conversations |-> <<
        [from |-> "human",
         value |-> <<"<image>Verify the accuracy of these ">> \o wave_type
                   \o <<" wave coordinates with 2ms precision per pixel: x1=">>
                   \o coords[1] \o <<", x2=">> \o coords[2]
                   \o <<", x3=">> \o coords[3]],
        [from |-> "gpt",
         value |-> <<"Verified ">> \o wave_type
                   \o <<" coordinates: <points x1=\"">> \o coords[1]
                   \o <<"\" x2=\"">> \o coords[2]
                   \o <<"\" x3=\"">> \o coords[3]
                   \o <<"\" alt=\"">> \o wave_type
                   \o <<"\">Coordinates confirmed - ">> \o wave_type
                   \o <<"</points>">>]>>]

\* "{:.1f}" of a number of tenths.
format_tenths(v) ==
    IF v < 0
    THEN <<"-">> \o str((-v) \div 10) \o <<".">> \o str((-v) % 10)
    ELSE str(v \div 10) \o <<".">> \o str(v % 10)

\* random.uniform(-0.5, 0.5) is -0.5 + 1.0 * random.random(): a multiple of
\* 2^-53 from -0.5 up to 0.5 - 2^-53.
uniform_lowest == float_neg(float_of_ratio(1, 2))

uniform_highest == float_exact(FALSE, bn_sub(bn_shl(<<1>>, 52), <<1>>), -53)

\* Lines 66-68: the texts f"{float(c) + random.uniform(-0.5, 0.5):.1f}" can
\* be.  The sum grows with the draw, so it takes every tenth between the
\* ones of the two ends; a sum below zero that rounds to no tenth is
\* written "-0.0".
precise_coord_texts(c) ==
    LET lowest  == float_add(float(c), uniform_lowest)
        highest == float_add(float(c), uniform_highest)
        signed(x) == IF x.neg THEN -bn_int(tenths_of(x)) ELSE bn_int(tenths_of(x))
    IN  {format_tenths(t) : t \in signed(lowest)..signed(highest)}
            \cup (IF float_lt(lowest, float_zero) THEN {<<"-", "0", ".", "0">>}
                  ELSE {})

\* Lines 59-83, for the three texts of lines 66-68.
create_precision_boundary_sample(original_sample, coords, wave_type, precise_coords) ==
    [image |-> original_sample.image,
     conversations |-> <<
        [from |-> "human",
         value |-> <<"<image>Identify wave boundaries with sub-pixel precision. Use decimal coordinates for exact boundaries.">>],
        [from |-> "gpt",
         value |-> <<"Sub-pixel precision boundaries: <points x1=\"">>
                   \o precise_coords[1] \o <<"\" x2=\"">>
                   \o precise_coords[2] \o <<"\" x3=\"">>
                   \o precise_coords[3] \o <<"\" alt=\"">> \o wave_type
                   \o <<"\">">> \o wave_type \o <<"</points>">>]>>]

\* Lines 85-99.
create_temporal_context_sample(original_sample) ==
    [image |-> original_sample.image,
     conversations |-> <<
        [from |-> "human",
         value |-> <<"<image>Analyze this 2-second ECG segment. Identify all waves with their exact temporal positions. Each pixel represents 2ms.">>],
        [from |-> "gpt",
         value |-> <<"Analyzing 2-second ECG with temporal precision:\n- Time range: 0-2000ms (0-999 pixels)\n- Sampling: 500Hz = 1 sample per pixel\n- Resolution: 2ms per pixel\nIdentifying waves with precise timing...">>]>>]

\* Line 126: the turns the loop augments.
is_tagged(convo) ==
    convo.from = "gpt" /\ contains(convo.value, <<"<", "p", "o", "i", "n", "t", "s">>)

\* Lines 125-149: what one turn may append, one sequence for every outcome
\* of random.random() < 0.7 and of the three texts random.uniform leads to.
convo_outcomes(sample, convo) ==
    IF ~is_tagged(convo) THEN {<<>>}
    ELSE LET coords == extract_coordinates_from_text(convo.value)
             wave_type == wave_type_of(convo.value)
             temporal_sample == create_temporal_mapping_sample(sample, coords)
             verification_sample ==
                 create_coordinate_verification_sample(sample, coords, wave_type)
         IN  IF Len(coords) < 3 THEN {<<>>}
             ELSE {<<temporal_sample, verification_sample>>}
                  \cup {<<temporal_sample, verification_sample,
                          create_precision_boundary_sample(
                              sample, coords, wave_type, <<p1, p2, p3>>)>> :
                            p1 \in precise_coord_texts(coords[1]),
                            p2 \in precise_coord_texts(coords[2]),
                            p3 \in precise_coord_texts(coords[3])}

\* Line 33 raises in the turn: int() of a coordinate that is not all digits.
convo_raises(convo) ==
    /\ is_tagged(convo)
    /\ LET coords == extract_coordinates_from_text(convo.value)
       IN  Len(coords) >= 3 /\ \E k \in 1..3 : int_raises(coords[k])

\* Lines 125-149 over the turns of a sample, from turn k on.
RECURSIVE convos_outcomes(_, _)
convos_outcomes(sample, k) ==
    IF k > Len(sample.conversations) THEN {<<>>}
    ELSE {a \o b : a \in convo_outcomes(sample, sample.conversations[k]),
                   b \in convos_outcomes(sample, k + 1)}

\* Lines 117-154: the original sample, what its turns append, and the
\* context sample for either outcome of random.random() < 0.3.
sample_outcomes(sample) ==
    {<<sample>> \o a \o c :
        a \in convos_outcomes(sample, 1),
        c \in {<<>>, <<create_temporal_context_sample(sample)>>}}

\* Lines 115-154: the lists the loop may build from sample k on.
RECURSIVE enhanced_from(_, _)
enhanced_from(original_data, k) ==
    IF k > Len(original_data) THEN {<<>>}
    ELSE {a \o b : a \in sample_outcomes(original_data[k]),
                   b \in enhanced_from(original_data, k + 1)}

\* Lines 162-163: random.shuffle and the slice [:count], every outcome.
shuffled_prefixes(samples, count) ==
    LET n == Min(count, Len(samples))
    IN  {[j \in 1..n |-> samples[f[j]]] :
            f \in {g \in [1..n -> 1..Len(samples)] :
                     \A a, b \in 1..n : g[a] = g[b] => a = b}}

\* Lines 159-164 with a slice one original_data too long (never taken by the
\* script).
trim_unsliced(original_data, enhanced_data, target_size) ==
    IF Len(enhanced_data) > target_size
    THEN LET augmented_samples ==
                 SubSeq(enhanced_data, Len(original_data) + 1, Len(enhanced_data))
         IN  {original_data \o s :
                 s \in shuffled_prefixes(augmented_samples, target_size)}
    ELSE {enhanced_data}

\* Lines 159-164: the trimmed lists, one for every outcome of the shuffle.
trim(original_data, enhanced_data, target_size) ==
    IF Len(enhanced_data) > target_size
    THEN LET augmented_samples ==
                 SubSeq(enhanced_data, Len(original_data) + 1, Len(enhanced_data))
         IN  {original_data \o s :
                 s \in shuffled_prefixes(augmented_samples,
                                         target_size - Len(original_data))}
    ELSE {enhanced_data}

\* Line 159: int(len(original_data) * augmentation_factor), the factor a
\* float.
target_size_of(original_data, augmentation_factor) ==
    float_int(float_mul(float_of_int(Len(original_data)), augmentation_factor))

\* The inputs: samples and datasets.
sample_of(id, value) ==
    [id |-> id, image |-> <<"ecg_", id, ".png">>,
     conversations |-> <<[from |-> "human",
                          value |-> <<"<image>Where are the waves?">>],
                         [from |-> "gpt", value |-> value]>>]

TaggedP == tag_text(<<"1", "0">>, <<"2", "0">>, <<"3", "0">>, <<"P">>)

TaggedZero == tag_text(<<"0">>, <<"4">>, <<"9">>, <<"Q", "R", "S">>)

TaggedDecimal == tag_text(<<"1", "2", ".", "5">>, <<"2", "0">>, <<"3", "0">>, <<"T">>)

TwoCoordinates ==
    <<"<", "p", "o", "i", "n", "t", "s", " ", "x", "1", "=", "\"", "7", "\"", " ",
      "x", "2", "=", "\"", "8", "\"", ">">>

NoAlt ==
    <<"<", "p", "o", "i", "n", "t", "s", " ", "x", "1", "=", "\"", "1", "\"", " ",
      "x", "2", "=", "\"", "2", "\"", " ", "x", "3", "=", "\"", "3", "\"", ">">>

UpperCaseTag == text_upper(TaggedP)

Untagged == <<"N", "o", " ", "w", "a", "v", "e", "s", ".">>

Datasets ==
    {<<>>,
     <<sample_of("a", Untagged)>>,
     <<sample_of("a", TaggedP)>>,
     <<sample_of("a", TaggedDecimal)>>,
     <<sample_of("a", TaggedP), sample_of("b", Untagged)>>,
     <<sample_of("a", Untagged), sample_of("b", TaggedZero)>>,
     <<sample_of("a", NoAlt), sample_of("b", TwoCoordinates)>>,
     <<sample_of("a", UpperCaseTag), sample_of("b", TaggedP \o TaggedZero)>>}

\* The augmentation factors of the calls, all >= 1 (2.0 is the default).
Factors ==
    {float_of_int(1), float_of_ratio(3, 2), float_of_int(2), float_of_int(5)}

InitEnhance ==
    /\ pc = "call_enhance"
    /\ granularity = CHOSEN_GRANULARITY
    /\ call \in {[op |-> "enhance_ecg_dataset", original_data |-> d,
                  augmentation_factor |-> f] : d \in Datasets, f \in Factors}
    /\ ret = [raises |-> ""]
    /\ IdleImage
    /\ IdleDrive
    /\ IdleScan
    /\ IdleLoop

\* Lines 101-174.  ret.enhanced_data is the list json.dump wrote, ret.produced
\* the length of the list before the trim.
Enhance ==
    /\ pc = "call_enhance"
    /\ LET original_data == call.original_data
           target_size == target_size_of(original_data, call.augmentation_factor)
       IN  IF \E k \in 1..Len(original_data) :
                 \E j \in 1..Len(original_data[k].conversations) :
                    convo_raises(original_data[k].conversations[j])
           THEN ret' = [raises |-> "ValueError", written |-> FALSE]
           ELSE \E enhanced_data \in enhanced_from(original_data, 1) :
                  \E trimmed \in trim(original_data, enhanced_data, target_size) :
                     ret' = [raises |-> IF Len(original_data) = 0
                                        THEN "ZeroDivisionError" ELSE "",
                             written |-> TRUE,
                             produced |-> Len(enhanced_data),
                             target_size |-> target_size,
                             enhanced_data |-> trimmed]
    /\ pc' = "returned_enhance"
    /\ UNCHANGED <<granularity, driveVars, call, imageVars, scanVars, loopVars>>

SpecEnhance == InitEnhance /\ [][Enhance]_vars

(***************************************************************************)
(* pairwise_shuffle on its own                                             *)
(***************************************************************************)

MaxPairs == 2        \* most human/gpt pairs of a conversation handed over

\* The turns of the conversations handed over.
ShuffleTurns ==
    {[from |-> "human", value |-> "q1"], [from |-> "human", value |-> "q2"],
     [from |-> "gpt", value |-> "a1"]}

InitShuffle ==
    /\ pc = "call_shuffle"
    /\ granularity = CHOSEN_GRANULARITY
    /\ call \in {[op |-> "pairwise_shuffle", convo |-> c] :
                    c \in SeqsUpTo(ShuffleTurns, 2 * MaxPairs + 1)}
    /\ ret = [raises |-> ""]
    /\ IdleImage
    /\ IdleDrive
    /\ IdleScan
    /\ IdleLoop

\* Lines 192-201, one step for every outcome of random.shuffle(pairs).  On a
\* conversation of odd length the assert of line 194 raises, and without
\* asserts (python -O) convo[i+1] of line 200 does.
PairwiseShuffle ==
    /\ pc = "call_shuffle"
    /\ IF Len(call.convo) % 2 # 0
       THEN \E e \in {"AssertionError", "IndexError"} : ret' = [raises |-> e]
       ELSE \E perm \in Perms(Len(call.convo) \div 2) :
               ret' = [raises |-> "",
                       shuffled |-> pairwise_shuffle(call.convo, perm)]
    /\ pc' = "returned_shuffle"
    /\ UNCHANGED <<granularity, driveVars, call, imageVars, scanVars, loopVars>>

SpecShuffle == InitShuffle /\ [][PairwiseShuffle]_vars

(***************************************************************************)
(* precision_inference.py: consensus over several attempts                 *)
(*                                                                         *)
(* A coordinate is a Python float.                                         *)
(***************************************************************************)

MaxAttempts == 3     \* largest num_attempts of a call (3 is the default)

\* Lines 50-54: the pattern is the one of enhance_ecg_dataset.py.
extract_coordinates(text) ==
    LET coords == findall(CoordinatePattern, text)
    IN  [k \in 1..Len(coords) |-> float(coords[k][1])]

\* Lines 147-149: the coordinate lists of the attempts that yielded some.
RECURSIVE coordinates_of(_)
coordinates_of(responses) ==
    IF responses = <<>> THEN <<>>
    ELSE LET coords == extract_coordinates(Head(responses))
         IN  (IF coords # <<>> THEN <<coords>> ELSE <<>>)
                 \o coordinates_of(Tail(responses))

\* Lines 162-164: the loop from coordinate j on.
RECURSIVE avg_coords_from(_, _)
avg_coords_from(coordinates_list, j) ==
    IF j > Len(coordinates_list[1]) THEN <<>>
    ELSE LET avg_val == float_div_int(
                            float_sum([a \in 1..Len(coordinates_list) |->
                                          coordinates_list[a][j]]),
                            Len(coordinates_list))
         IN  <<float_round1(avg_val)>> \o avg_coords_from(coordinates_list, j + 1)

\* Lines 161-164: round(sum(...) / len(coordinates_list), 1) per coordinate.
avg_coords_of(coordinates_list) == avg_coords_from(coordinates_list, 1)

\* Line 173.
deviation(coords, avg_coords) ==
    float_sum([j \in 1..Len(coords) |->
                  float_abs(float_sub(coords[j], avg_coords[j]))])

\* Lines 169-176: the first index of coordinates_list with the least
\* deviation (the loop replaces the best only on a strictly smaller one).
best_response_idx_of(coordinates_list, avg_coords) ==
    CHOOSE a \in 1..Len(coordinates_list) :
        /\ \A b \in 1..Len(coordinates_list) :
              ~float_lt(deviation(coordinates_list[b], avg_coords),
                        deviation(coordinates_list[a], avg_coords))
        /\ \A b \in 1..(a - 1) :
              float_lt(deviation(coordinates_list[a], avg_coords),
                       deviation(coordinates_list[b], avg_coords))

\* Lines 153-182 for the responses of the attempts; best_response_idx, an
\* index of coordinates_list, is used as an index of responses.
consensus(responses) ==
    LET coordinates_list == coordinates_of(responses)
    IN  IF responses = <<>> THEN [raises |-> "IndexError"]
        ELSE IF /\ Len(coordinates_list) >= 2
                /\ \A a \in 1..Len(coordinates_list) :
                      Len(coordinates_list[a]) = Len(coordinates_list[1])
        THEN LET avg_coords == avg_coords_of(coordinates_list)
                 best_response_idx ==
                     best_response_idx_of(coordinates_list, avg_coords)
             IN  [raises |-> "", coords |-> avg_coords,
                  response |-> responses[best_response_idx]]
        ELSE [raises |-> "", response |-> responses[1],
              coords |-> IF coordinates_list # <<>> THEN coordinates_list[1]
                         ELSE <<>>]

\* The responses model.generate may return.
ResponseTexts ==
    {Untagged, TaggedP, TwoCoordinates,
     tag_text(<<"1", "0">>, <<"2", "0">>, <<"3", "6">>, <<"P">>),
     tag_text(<<"1", "0", ".", "1">>, <<"2", "0">>, <<"3", "0">>, <<"P">>),
     tag_text(<<"1", "0", ".", "3">>, <<"2", "0">>, <<"3", "0">>, <<"T">>)}

InitConsensus ==
    /\ pc = "call_consensus"
    /\ granularity = CHOSEN_GRANULARITY
    /\ call \in {[op |-> "precision_inference", responses |-> r] :
                    r \in SeqsUpTo(ResponseTexts, MaxAttempts)}
    /\ ret = [raises |-> ""]
    /\ IdleImage
    /\ IdleDrive
    /\ IdleScan
    /\ IdleLoop

\* Lines 120-182: call.responses are the decoded outputs of the num_attempts
\* calls of model.generate.
PrecisionInference ==
    /\ pc = "call_consensus"
    /\ ret' = consensus(call.responses)
    /\ pc' = "returned_consensus"
    /\ UNCHANGED <<granularity, driveVars, call, imageVars, scanVars, loopVars>>

SpecConsensus == InitConsensus /\ [][PrecisionInference]_vars

(***************************************************************************)
(* serve/app.py and interactive_ecg_inference.py: temporal context of an    *)
(* image                                                                    *)
(*                                                                         *)
(* files is the disk: the width of every file Image.open can open.  A      *)
(* ms_per_pixel is a Python float (7.1 is the float nearest to 71/10),     *)
(* and total_patches None is 0.                                            *)
(***************************************************************************)

MaxOtherWidth == 50  \* widest image that is not one of the generator's

\* app.py lines 102-122; written has the ms_per_pixel as the source writes
\* it, <<71, 10>> for 7.1 and <<2000, width>> for 2000 / width.
estimate_temporal_context(image_path, files) ==
    LET written ==
            IF image_path \notin DOMAIN files
            THEN [ms_per_pixel |-> <<40, 10>>, granularity |-> "unknown",
                  total_patches |-> 0]
            ELSE LET width == files[image_path]
                 IN  CASE width = 504 ->
                            [ms_per_pixel |-> <<40, 10>>, granularity |-> "fine",
                             total_patches |-> 144]
                       [] width = 1008 ->
                            [ms_per_pixel |-> <<20, 10>>, granularity |-> "ultra_fine",
                             total_patches |-> 288]
                       [] width = 280 ->
                            [ms_per_pixel |-> <<71, 10>>, granularity |-> "medium",
                             total_patches |-> 80]
                       [] width = 252 ->
                            [ms_per_pixel |-> <<79, 10>>, granularity |-> "coarse",
                             total_patches |-> 72]
                       [] OTHER ->
                            [ms_per_pixel |-> <<2000, width>>, granularity |-> "custom",
                             total_patches |-> 0]
    IN  [written EXCEPT !.ms_per_pixel = float_of_ratio(@[1], @[2])]

\* interactive_ecg_inference.py lines 125-152: the context put into the
\* question; without an image that opens the question goes out as it is.
interactive_context(image_path, files) ==
    LET written ==
            IF image_path \notin DOMAIN files
            THEN [enhanced |-> FALSE]
            ELSE LET width == files[image_path]
                 IN  CASE width = 504 ->
                            [enhanced |-> TRUE, ms_per_pixel |-> <<40, 10>>,
                             granularity |-> "fine"]
                       [] width = 1008 ->
                            [enhanced |-> TRUE, ms_per_pixel |-> <<20, 10>>,
                             granularity |-> "ultra_fine"]
                       [] width = 280 ->
                            [enhanced |-> TRUE, ms_per_pixel |-> <<71, 10>>,
                             granularity |-> "medium"]
                       [] OTHER ->
                            [enhanced |-> TRUE, ms_per_pixel |-> <<2000, width>>,
                             granularity |-> "custom"]
    IN  IF written.enhanced
        THEN [written EXCEPT !.ms_per_pixel = float_of_ratio(@[1], @[2])]
        ELSE written

\* The widths of the images handed over: the generator's and small others.
ContextWidths ==
    {FIXED_WIDTH(g) : g \in GranularityNames} \cup (1..MaxOtherWidth)

InitContext ==
    /\ pc = "call_context"
    /\ granularity = CHOSEN_GRANULARITY
    /\ call \in {[op |-> f, image_path |-> "ecg.png", files |-> d] :
                    f \in {"estimate_temporal_context", "interactive"},
                    d \in {"ecg.png" :> width : width \in ContextWidths}
                          \cup {"other.png" :> 504}}
    /\ ret = [raises |-> ""]
    /\ IdleImage
    /\ IdleDrive
    /\ IdleScan
    /\ IdleLoop

EstimateTemporalContext ==
    /\ pc = "call_context"
    /\ call.op = "estimate_temporal_context"
    /\ ret' = estimate_temporal_context(call.image_path, call.files)
    /\ pc' = "returned_context"
    /\ UNCHANGED <<granularity, driveVars, call, imageVars, scanVars, loopVars>>

InteractiveContext ==
    /\ pc = "call_context"
    /\ call.op = "interactive"
    /\ ret' = interactive_context(call.image_path, call.files)
    /\ pc' = "returned_context"
    /\ UNCHANGED <<granularity, driveVars, call, imageVars, scanVars, loopVars>>

NextContext == EstimateTemporalContext \/ InteractiveContext

SpecContext == InitContext /\ [][NextContext]_vars

(***************************************************************************)
(* serve/app.py: the conversation built from the chat history              *)
(*                                                                         *)
(* A user turn of the history is a text, or a tuple of file paths and a    *)
(* text; an assistant turn is a text or None.  Content items are records   *)
(* with the keys of the dicts.                                             *)
(***************************************************************************)

MaxHistory == 2      \* most (user, assistant) pairs of a chat history

\* The files of the chat: images by width, and a video.
ChatFiles == ("fine.png" :> 504) @@ ("coarse.png" :> 252) @@ ("ultra.png" :> 1008)

VideoFiles == {"clip.mp4"}

\* Lines 32-35.
is_video_file(filename) == filename \in VideoFiles

\* Lines 347-354 and 375-384: the content items of a list of files.
file_items(file_paths) ==
    [k \in 1..Len(file_paths) |->
        IF is_video_file(file_paths[k])
        THEN [type |-> "video", video |-> file_paths[k], fps |-> 1]
        ELSE [type |-> "image", image |-> file_paths[k]]]

\* Lines 352-354 and 382-384: the context of the first image of the files,
\* kept only while none is stored (estimate_temporal_context never returns
\* an empty dict); <<>> is the empty dict.
first_context(stored, file_paths, files) ==
    LET image_idx == {k \in 1..Len(file_paths) : ~is_video_file(file_paths[k])}
    IN  IF stored # <<>> \/ image_idx = {} THEN stored
        ELSE estimate_temporal_context(
                 file_paths[CHOOSE k \in image_idx : \A j \in image_idx : k <= j],
                 files)

\* Lines 124-151: the text with its context; <<>> leaves it as it is.
enhance_user_prompt(user_text, temporal_context) ==
    IF temporal_context = <<>> THEN <<user_text>>
    ELSE <<"ECG Analysis Context", temporal_context.granularity,
           temporal_context.ms_per_pixel, temporal_context.total_patches,
           user_text>>

\* Lines 330-366: the messages of one pair of the history.
history_messages(user_turn, assistant_turn) ==
    LET user_content ==
            IF user_turn.tuple
            THEN file_items(user_turn.file_paths)
                     \o (IF user_turn.text # ""
                         THEN <<[type |-> "text", text |-> <<user_turn.text>>]>>
                         ELSE <<>>)
            ELSE <<[type |-> "text", text |-> <<user_turn.text>>]>>
    IN  <<[role |-> "user", content |-> user_content]>>
            \o (IF assistant_turn # "None"
                THEN <<[role |-> "assistant",
                        content |-> <<[type |-> "text", text |-> <<assistant_turn>>]>>]>>
                ELSE <<>>)

\* Lines 330-366 over the history from pair k on: the conversation and
\* last_temporal_context.
RECURSIVE history_from(_, _, _, _)
history_from(history, k, last_temporal_context, files) ==
    IF k > Len(history)
    THEN [conversation |-> <<>>, last_temporal_context |-> last_temporal_context]
    ELSE LET user_turn == history[k][1]
             stored == IF user_turn.tuple
                       THEN first_context(last_temporal_context,
                                          user_turn.file_paths, files)
                       ELSE last_temporal_context
             rest == history_from(history, k + 1, stored, files)
         IN  [conversation |-> history_messages(user_turn, history[k][2])
                                   \o rest.conversation,
              last_temporal_context |-> rest.last_temporal_context]

\* Lines 325-400.
build_conversation_history(history, current_message, files) ==
    LET past == history_from(history, 1, <<>>, files)
        own == first_context(<<>>, current_message.files, files)
        temporal_context == IF own = <<>> THEN past.last_temporal_context ELSE own
        user_text == current_message.text
        user_content ==
            file_items(current_message.files)
                \o (IF user_text # ""
                    THEN <<[type |-> "text",
                            text |-> enhance_user_prompt(user_text, temporal_context)]>>
                    ELSE <<>>)
    IN  [conversation |-> past.conversation
                              \o <<[role |-> "user", content |-> user_content]>>,
         temporal_context |-> temporal_context]

\* Lines 405-408: the first image item of a message, "None" without one.
first_image_of(msg) ==
    LET image_idx == {k \in 1..Len(msg.content) : msg.content[k].type = "image"}
    IN  IF image_idx = {} THEN "None"
        ELSE msg.content[CHOOSE k \in image_idx : \A j \in image_idx : k <= j].image

\* Lines 402-409: the messages are searched from the most recent one.
RECURSIVE find_image_path_in_conversation(_)
find_image_path_in_conversation(conversation) ==
    IF conversation = <<>> THEN "None"
    ELSE LET found == first_image_of(conversation[Len(conversation)])
         IN  IF found # "None" THEN found
             ELSE find_image_path_in_conversation(
                      SubSeq(conversation, 1, Len(conversation) - 1))

\* The user turns and the current messages of the chats.
UserTurns ==
    {[tuple |-> FALSE, file_paths |-> <<>>, text |-> "Where is the P wave?"],
     [tuple |-> TRUE, file_paths |-> <<"fine.png">>, text |-> ""],
     [tuple |-> TRUE, file_paths |-> <<"coarse.png">>, text |-> "And here?"],
     [tuple |-> TRUE, file_paths |-> <<"clip.mp4">>, text |-> ""],
     [tuple |-> TRUE, file_paths |-> <<"ultra.png", "fine.png">>, text |-> ""]}

CurrentMessages ==
    {[text |-> t, files |-> f] :
        t \in {"", "And the T wave?"},
        f \in {<<>>, <<"clip.mp4">>, <<"ultra.png">>}}

InitHistory ==
    /\ pc = "call_history"
    /\ granularity = CHOSEN_GRANULARITY
    /\ call \in {[op |-> "bot_streaming", history |-> h, message |-> m,
                  files |-> ChatFiles] :
                    h \in SeqsUpTo(UserTurns \X {"None", "The P wave is here."},
                                   MaxHistory),
                    m \in CurrentMessages}
    /\ ret = [raises |-> ""]
    /\ IdleImage
    /\ IdleDrive
    /\ IdleScan
    /\ IdleLoop

\* bot_streaming lines 416-420: the conversation, its temporal context and
\* the image the visualization is drawn on.
BuildConversation ==
    /\ pc = "call_history"
    /\ LET built == build_conversation_history(call.history, call.message,
                                               call.files)
       IN  ret' = [conversation |-> built.conversation,
                   temporal_context |-> built.temporal_context,
                   ecg_image_path |->
                       find_image_path_in_conversation(built.conversation)]
    /\ pc' = "returned_history"
    /\ UNCHANGED <<granularity, driveVars, call, imageVars, scanVars, loopVars>>

SpecHistory == InitHistory /\ [][BuildConversation]_vars

(***************************************************************************)
(* dataset/data_utils.py: truncate_sequence                                *)
(*                                                                         *)
(* A tensor is the sequence of its elements; eos_token_id is <<id>>, or    *)
(* <<>> for None.                                                          *)
(***************************************************************************)

MaxTokens == 3       \* longest input_ids, and largest max_length

\* t[:stop] of a one-dimensional tensor; a negative stop counts from the end.
slice_to(t, stop) ==
    IF stop >= 0 THEN SubSeq(t, 1, Min(stop, Len(t)))
    ELSE SubSeq(t, 1, Max(Len(t) + stop, 0))

\* Lines 41-50.
truncate_sequence(input_ids, labels, max_length, eos_token_id) ==
    LET cut == Len(input_ids) > max_length
        ids == IF cut THEN slice_to(input_ids, max_length - 1) ELSE input_ids
        lbs == IF cut THEN slice_to(labels, max_length - 1) ELSE labels
    IN  IF eos_token_id # <<>>
        THEN [input_ids |-> ids \o eos_token_id, labels |-> lbs \o eos_token_id]
        ELSE [input_ids |-> ids, labels |-> lbs]

\* Token ids and labels of the inputs (-100 is the ignored label).
TokenIds == {0, 1}

LabelIds == {-100, 1}

InitTruncate ==
    /\ pc = "call_truncate"
    /\ granularity = CHOSEN_GRANULARITY
    /\ call \in {[op |-> "truncate_sequence", input_ids |-> ids, labels |-> lbs,
                  max_length |-> m, eos_token_id |-> e] :
                    ids \in SeqsUpTo(TokenIds, MaxTokens),
                    lbs \in SeqsUpTo(LabelIds, MaxTokens),
                    m \in 0..MaxTokens, e \in {<<>>, <<2>>}}
    /\ Len(call.input_ids) = Len(call.labels)
    /\ ret = [raises |-> ""]
    /\ IdleImage
    /\ IdleDrive
    /\ IdleScan
    /\ IdleLoop

TruncateSequence ==
    /\ pc = "call_truncate"
    /\ ret' = truncate_sequence(call.input_ids, call.labels, call.max_length,
                                call.eos_token_id)
    /\ pc' = "returned_truncate"
    /\ UNCHANGED <<granularity, driveVars, call, imageVars, scanVars, loopVars>>

SpecTruncate == InitTruncate /\ [][TruncateSequence]_vars

(***************************************************************************)
(* fixed_inference_script.py and patch_aligned_inference.py: the           *)
(* multi-turn loops                                                        *)
(***************************************************************************)

MaxTurns == 3        \* most user messages of a conversation under inference

\* The user messages of an example, and the replies model.generate may give.
UserMessages ==
    {[role |-> "user", content |-> <<[type |-> "image", image |-> "ecg.png"],
                                     [type |-> "text", text |-> "Where is P?"]>>],
     [role |-> "user", content |-> <<[type |-> "text", text |-> "Where is QRS?"]>>],
     [role |-> "user", content |-> <<[type |-> "text", text |-> "Where is T?"]>>]}

Replies == {"reply A", "reply B"}

assistant_message(response) ==
    [role |-> "assistant", content |-> <<[type |-> "text", text |-> response]>>]

\* fixed_inference_script.py line 115.
conv_history_fixed(messages, replies, k) ==
    SubSeq(messages, 1, k + 1) \o replies

\* patch_aligned_inference.py lines 329-333.
RECURSIVE conv_history_aligned(_, _, _)
conv_history_aligned(messages, replies, k) ==
    IF k < 0 THEN <<>>
    ELSE conv_history_aligned(messages, replies, k - 1)
             \o <<messages[k + 1]>>
             \o (IF k < Len(replies) THEN <<replies[k + 1]>> ELSE <<>>)

InitTurns ==
    /\ pc = "turn"
    /\ granularity = CHOSEN_GRANULARITY
    /\ call \in {[op |-> f, messages |-> m] :
                    f \in {"fixed_inference_script", "patch_aligned_inference"},
                    m \in SeqsUpTo(UserMessages, MaxTurns)}
    /\ ret = [raises |-> ""]
    /\ IdleTurns
    /\ IdleStream
    /\ IdleImage
    /\ IdleScan
    /\ IdleLoop

\* fixed_inference_script.py lines 114-142: one turn of the loop, with the
\* response of model.generate.
TurnFixed ==
    /\ pc = "turn"
    /\ call.op = "fixed_inference_script"
    /\ idx < Len(call.messages)
    /\ conv_history' = conv_history_fixed(call.messages, assistant_replies, idx)
    /\ \E response \in Replies :
          assistant_replies' = Append(assistant_replies, assistant_message(response))
    /\ idx' = idx + 1
    /\ UNCHANGED <<pc, granularity, callVars, streamVars, imageVars, scanVars,
                   loopVars>>

\* patch_aligned_inference.py lines 325-345: one turn of the loop, with the
\* response of consensus_inference.
TurnAligned ==
    /\ pc = "turn"
    /\ call.op = "patch_aligned_inference"
    /\ idx < Len(call.messages)
    /\ conv_history' = conv_history_aligned(call.messages, assistant_replies, idx)
    /\ \E response \in Replies :
          assistant_replies' = Append(assistant_replies, assistant_message(response))
    /\ idx' = idx + 1
    /\ UNCHANGED <<pc, granularity, callVars, streamVars, imageVars, scanVars,
                   loopVars>>

NextTurns == TurnFixed \/ TurnAligned

SpecTurns == InitTurns /\ [][NextTurns]_vars

(***************************************************************************)
(* serve/app.py: bot_streaming, the generation thread and the consumer     *)
(*                                                                         *)
(* call.chunks are the texts the TextIteratorStreamer hands on during      *)
(* model.generate, in order; the last one is the text flushed by end(),    *)
(* which also puts the stop signal.  The queue holds records: a text, or   *)
(* the stop signal.                                                        *)
(***************************************************************************)

\* html.escape of line 174.
html_escape_char(c) ==
    CASE c = "&" -> <<"&", "a", "m", "p", ";">>
      [] c = "<" -> <<"&", "l", "t", ";">>
      [] c = ">" -> <<"&", "g", "t", ";">>
      [] c = "\"" -> <<"&", "q", "u", "o", "t", ";">>
      [] c = "'" -> <<"&", "#", "x", "2", "7", ";">>
      [] OTHER -> <<c>>

html_escape(s) == joined([k \in 1..Len(s) |-> html_escape_char(s[k])], 1, Len(s))

OpenTag == <<"<", "p", "o", "i", "n", "t", "s">>

CloseTag == <<"<", "/", "p", "o", "i", "n", "t", "s", ">">>

\* Line 174: re.sub(r'<points([^>]*)>', ...).  A match starts at p when
\* "<points" is there, a ">" follows, and p is not inside an earlier match
\* (an earlier "<points" with no ">" before p); it ends at the first ">".
tag_end(text, p) ==
    LET ends == {q \in (p + Len(OpenTag))..Len(text) : text[q] = ">"}
    IN  IF ends = {} THEN 0 ELSE CHOOSE e \in ends : \A o \in ends : e <= o

tag_starts(text) ==
    {p \in 1..Len(text) :
        /\ exact_at(text, p, OpenTag)
        /\ tag_end(text, p) # 0
        /\ ~\E p0 \in 1..(p - 1) :
              exact_at(text, p0, OpenTag) /\ tag_end(text, p0) >= p}

\* What position p of the text becomes.
sub_open_tag_at(text, p, starts) ==
    IF p \in starts
    THEN <<"&", "l", "t", ";", "p", "o", "i", "n", "t", "s">>
             \o html_escape(SubSeq(text, p + Len(OpenTag), tag_end(text, p) - 1))
             \o <<"&", "g", "t", ";">>
    ELSE IF \E p0 \in starts : p0 < p /\ p <= tag_end(text, p0)
         THEN <<>>
         ELSE <<text[p]>>

\* Line 175: text.replace('</points>', '&lt;/points&gt;'), position p.
replace_close_tag_at(text, p) ==
    IF exact_at(text, p, CloseTag)
    THEN <<"&", "l", "t", ";", "/", "p", "o", "i", "n", "t", "s", "&", "g", "t", ";">>
    ELSE IF \E p0 \in (p - Len(CloseTag) + 1)..(p - 1) :
                p0 >= 1 /\ exact_at(text, p0, CloseTag)
         THEN <<>>
         ELSE <<text[p]>>

sub_open_tags(text) ==
    LET starts == tag_starts(text)
    IN  joined([p \in 1..Len(text) |-> sub_open_tag_at(text, p, starts)],
               1, Len(text))

replace_close_tags(text) ==
    joined([p \in 1..Len(text) |-> replace_close_tag_at(text, p)], 1, Len(text))

\* Lines 171-176.
escape_html_tags(text) == replace_close_tags(sub_open_tags(text))

\* Lines 153-169: one entry for every line of the summary, the times as
\* "{:.1f}" prints them; <<>> is "".
format_coordinates_for_display(coordinates, temporal_context) ==
    LET ms_per_pixel == temporal_context.ms_per_pixel
        time(x) == float_format1(float_mul(float_of_int(x), ms_per_pixel))
    IN  [k \in 1..Len(coordinates) |->
            [wave_type |-> coordinates[k][4],
             pixels |-> <<coordinates[k][1], coordinates[k][2], coordinates[k][3]>>,
             time_start |-> time(coordinates[k][1]),
             time_center |-> time(coordinates[k][2]),
             time_end |-> time(coordinates[k][3])]]

\* processor.tokenizer.eos_token of the Qwen2-VL tokenizer.
eos_token == <<"<", "|", "i", "m", "_", "e", "n", "d", "|", ">">>

\* Lines 462-506: the value yielded for the buffer; formatted_buffer is the
\* escaped text followed by the summary and, if drawn, the visualization.
final_value(text, temporal_context, ecg_image_path, drawn) ==
    LET coordinates == extract_coordinates_from_response(text)
    IN  [text |-> escape_html_tags(text),
         coordinate_summary |->
             IF coordinates # <<>> /\ temporal_context # <<>>
             THEN format_coordinates_for_display(coordinates, temporal_context)
             ELSE <<>>,
         visualization |->
             /\ coordinates # <<>>
             /\ ecg_image_path # "None"
             /\ temporal_context # <<>>
             /\ drawn]

\* Line 509: the value yielded while the text is streaming.
intermediate_value(text) ==
    [text |-> escape_html_tags(text), coordinate_summary |-> <<>>,
     visualization |-> FALSE]

RECURSIVE Concat(_)
Concat(chunks) == IF chunks = <<>> THEN <<>> ELSE Head(chunks) \o Concat(Tail(chunks))

\* The generations: the texts handed on, the last one by end().
Generations ==
    {<<TaggedP>>,
     <<OpenTag \o <<" ">>, SubSeq(TaggedP, Len(OpenTag) + 2, Len(TaggedP))>>,
     <<TaggedP \o <<"\n">>, <<>>>>,
     <<TaggedZero \o <<" ">>, AttrsOnly>>,
     <<Untagged>>,
     <<<<"N", "o", " ">>, <<"w", "a", "v", "e", "s", ".">>>>}

\* The conversation of the call: with an image and its context, or without.
StreamContexts ==
    {[temporal_context |-> estimate_temporal_context("fine.png", ChatFiles),
      ecg_image_path |-> "fine.png"],
     [temporal_context |-> <<>>, ecg_image_path |-> "None"]}

\* Lines 416-457: thread.start() has been called and the loop over the
\* streamer begins.
InitStream ==
    /\ pc = "stream_next"
    /\ granularity = CHOSEN_GRANULARITY
    /\ call \in {[op |-> "bot_streaming", chunks |-> g,
                  temporal_context |-> c.temporal_context,
                  ecg_image_path |-> c.ecg_image_path] :
                    g \in Generations, c \in StreamContexts}
    /\ ret = [raises |-> ""]
    /\ streamer = <<>>
    /\ buffer = <<>>
    /\ yielded = <<>>
    /\ thread = [alive |-> TRUE, put |-> 0]
    /\ IdleTurns
    /\ IdleImage
    /\ IdleScan
    /\ IdleLoop

\* The generation thread: the streamer puts a text into its queue.
StreamerPut ==
    /\ thread.alive
    /\ thread.put < Len(call.chunks) - 1
    /\ streamer' = Append(streamer,
                          [stop |-> FALSE, text |-> call.chunks[thread.put + 1]])
    /\ thread' = [thread EXCEPT !.put = @ + 1]
    /\ UNCHANGED <<pc, granularity, callVars, buffer, yielded, turnVars, imageVars,
                   scanVars, loopVars>>

\* The generation thread: end() puts the rest of the text and the stop signal.
StreamerEnd ==
    /\ thread.alive
    /\ thread.put = Len(call.chunks) - 1
    /\ streamer' = streamer
                       \o <<[stop |-> FALSE, text |-> call.chunks[Len(call.chunks)]],
                            [stop |-> TRUE, text |-> <<>>]>>
    /\ thread' = [thread EXCEPT !.put = @ + 1]
    /\ UNCHANGED <<pc, granularity, callVars, buffer, yielded, turnVars, imageVars,
                   scanVars, loopVars>>

\* The generation thread: model.generate returns and the thread ends.
ThreadExit ==
    /\ thread.alive
    /\ thread.put = Len(call.chunks)
    /\ thread' = [thread EXCEPT !.alive = FALSE]
    /\ UNCHANGED <<pc, granularity, callVars, streamer, buffer, yielded, turnVars,
                   imageVars, scanVars, loopVars>>

\* Lines 457-458: the consumer takes the next item of the queue (it waits
\* while the queue is empty); the stop signal ends the loop.
StreamNext ==
    /\ pc = "stream_next"
    /\ streamer # <<>>
    /\ streamer' = Tail(streamer)
    /\ IF Head(streamer).stop
       THEN pc' = "stream_done" /\ UNCHANGED buffer
       ELSE pc' = "stream_yield" /\ buffer' = buffer \o Head(streamer).text
    /\ UNCHANGED <<granularity, callVars, yielded, thread, turnVars, imageVars,
                   scanVars, loopVars>>

\* Lines 460-509: the consumer yields for the text it has; the visualization
\* is drawn or fails.
StreamYield ==
    /\ pc = "stream_yield"
    /\ IF contains(buffer, eos_token) \/ thread.alive = FALSE
       THEN \E drawn \in BOOLEAN :
               yielded' = Append(yielded,
                                 final_value(buffer, call.temporal_context,
                                             call.ecg_image_path, drawn))
       ELSE yielded' = Append(yielded, intermediate_value(buffer))
    /\ pc' = "stream_next"
    /\ UNCHANGED <<granularity, callVars, streamer, buffer, thread, turnVars,
                   imageVars, scanVars, loopVars>>

NextStream ==
    \/ StreamerPut
    \/ StreamerEnd
    \/ ThreadExit
    \/ StreamNext
    \/ StreamYield

SpecStream == InitStream /\ [][NextStream]_vars /\ WF_vars(NextStream)

(***************************************************************************)
(* Claims                                                                  *)
(***************************************************************************)

\* C1: for every granularity option and the 1000-sample window, the pixel index
\* the rescaler gives a relative sample index is the index of the pixel whose
\* averaging block holds that sample after the downsampler's resampling.
C1_RescalerMatchesDownsampler ==
    pc = "returned_rescale" => ret.pixel_idx = ret.block

\* C2: downsample_signal_for_perfect_mapping returns exactly target_width values,
\* whether or not the signal's length is target_width * samples_per_pixel.
C2_DownsampleLength ==
    pc = "returned_downsample" =>
        ret.raises = "" /\ Len(ret.num) = call.target_width

C2_Witness ==
    /\ pc = "returned_downsample"
    /\ Len(call.signal) = 4 /\ call.target_width = 3 /\ call.samples_per_pixel = 2
    /\ Len(ret.num) = 3

Clamp(x, lo, hi) == IF x < lo THEN lo ELSE IF x > hi THEN hi ELSE x

\* C3: for a sample index i relative to the window start, 0 <= i < window
\* length, the rescaled pixel index is floor(i / samples_per_pixel) clamped to
\* [0, width - 1], hence within 0 .. width - 1.
C3_RescaledPixelInBounds ==
    pc = "returned_rescale" =>
        LET width == GRANULARITY_OPTIONS[granularity].width
            spp   == GRANULARITY_OPTIONS[granularity].samples_per_pixel
        IN  /\ ret.sample_idx \in 0..(samples_per_window - 1)
            /\ ret.pixel_idx = Clamp(ret.sample_idx \div spp, 0, width - 1)
            /\ 0 <= ret.pixel_idx /\ ret.pixel_idx < width

C3_Witness ==
    /\ pc = "returned_rescale"
    /\ granularity = "fine"
    /\ call.w = 1
    /\ ret.sample_idx = 999
    /\ ret.pixel_idx = 499

Examples ==
    {dataset_wo_meta[k] : k \in 1..Len(dataset_wo_meta)}
        \cup {dataset_with_meta[k] : k \in 1..Len(dataset_with_meta)}

TagsOf(ex) ==
    UNION {{ex.conversations[k].tags[n] : n \in 1..Len(ex.conversations[k].tags)} :
              k \in 1..Len(ex.conversations)}

\* C4: every wave triplet written into a training example satisfies
\* 0 <= x_onset <= x_peak <= x_offset < image_width: a matched pattern whose
\* pixel coordinates are not non-decreasing is rejected, never emitted.
C4_TripletsMonotone ==
    \A ex \in Examples : \A tag \in TagsOf(ex) :
        /\ 0 <= tag.x1 /\ tag.x1 <= tag.x2 /\ tag.x2 <= tag.x3
        /\ tag.x3 < ex.metadata.image_width

\* The symbols of the window under scan, and the triplet of pixel indices that
\* starts at the code's index k.
SymbolAt(k) == scaled_annotations[k + 1][2]

TripletAt(k) ==
    <<scaled_annotations[k + 1][1], scaled_annotations[k + 2][1], scaled_annotations[k + 3][1]>>

RunStarts == 0..(Len(scaled_annotations) - 3)

TypeCodes == {"N", "V", "A", "n", "v", "a", "p", "t"}

ValidRun(k) == SymbolAt(k) = "(" /\ SymbolAt(k + 1) \in TypeCodes /\ SymbolAt(k + 2) = ")"

InBucket(k, t) == \E n \in 1..Len(waves[t]) : waves[t][n] = TripletAt(k)

Occurrences(k, t) == Cardinality({n \in 1..Len(waves[t]) : waves[t][n] = TripletAt(k)})

\* C5: the scan emits every run of three consecutive events '(' type-code ')'
\* exactly once, whatever unmatched or malformed events come before or after it.
C5_EveryRunEmittedOnce ==
    pc = "scanned" =>
        \A k \in RunStarts :
            ValidRun(k) =>
                Occurrences(k, "QRS") + Occurrences(k, "P") + Occurrences(k, "T") = 1

C5_Witness ==
    /\ pc = "scanned"
    /\ ann_in_window = MkAnn(<<"(", "(", "p", ")", "+">>)
    /\ waves = [QRS |-> <<>>, P |-> <<<<15, 20, 25>>>>, T |-> <<>>]

\* The number of emitted triplets that hold the pixel index of event k.
EventUses(k) ==
    LET uses(t) == Cardinality({n \in 1..Len(waves[t]) :
                        \E m \in 1..3 : waves[t][n][m] = scaled_annotations[k][1]})
    IN  uses("QRS") + uses("P") + uses("T")

ScanOver == pc \in {"scanned", "skipped"}

\* C6: the scan ends on every annotation sequence: each iteration moves the
\* scan index up, by 3 on a match and by 1 otherwise, and no event is part of
\* more than one emitted triplet.
C6_ScanTerminates ==
    /\ [][pc = "scan" /\ pc' = "scan" =>
            \/ waves' # waves /\ i' = i + 3
            \/ waves' = waves /\ i' = i + 1]_vars
    /\ [](\A k \in 1..Len(scaled_annotations) : EventUses(k) <= 1)
    /\ <>ScanOver

C6_Witness ==
    /\ pc = "scanned"
    /\ ann_in_window = MkAnn(<<"(", "(", "N", ")", ")">>)
    /\ i = 4
    /\ waves.QRS = <<<<15, 20, 25>>>>

SpecBucket(code) ==
    IF code \in {"N", "V", "A", "n", "v", "a"} THEN "QRS"
    ELSE IF code = "p" THEN "P" ELSE IF code = "t" THEN "T" ELSE "none"

AnnSymbols == [k \in 1..Len(ann_in_window) |-> ann_in_window[k][2]]

IsBackToBack ==
    /\ Len(ann_in_window) % 3 = 0
    /\ \A k \in 1..Len(ann_in_window) :
          IF k % 3 = 1 THEN AnnSymbols[k] = "("
          ELSE IF k % 3 = 2 THEN AnnSymbols[k] \in TypeCodes
          ELSE AnnSymbols[k] = ")"

\* The triplets of bucket t among the first n triplets of a back-to-back input.
RECURSIVE ExpectedBucket(_, _)
ExpectedBucket(t, n) ==
    IF n = 0 THEN <<>>
    ELSE IF SpecBucket(SymbolAt(3 * n - 2)) = t
         THEN Append(ExpectedBucket(t, n - 1), TripletAt(3 * n - 3))
         ELSE ExpectedBucket(t, n - 1)

C7_Example ==
    <<<<20, "(">>, <<30, "p">>, <<40, ")">>, <<50, "(">>, <<60, "N">>, <<70, ")">>>>

\* C7: for k well-formed triplets placed back to back the grouper outputs those
\* k triplets and nothing else, each in the bucket of its type code, in scan
\* order; pixel events (10,'('),(15,'p'),(20,')'),(25,'('),(30,'N'),(35,')')
\* give P = [[10,15,20]], QRS = [[25,30,35]] and no T triplet.
C7_BackToBackTriplets ==
    /\ (pc = "scanned" /\ IsBackToBack) =>
          \A t \in WaveTypes : waves[t] = ExpectedBucket(t, Len(ann_in_window) \div 3)
    /\ (pc = "scanned" /\ ann_in_window = C7_Example) =>
          /\ scaled_annotations =
                <<<<10, "(">>, <<15, "p">>, <<20, ")">>, <<25, "(">>, <<30, "N">>, <<35, ")">>>>
          /\ waves = [QRS |-> <<<<25, 30, 35>>>>, P |-> <<<<10, 15, 20>>>>, T |-> <<>>]

C7_Witness ==
    /\ pc = "scanned"
    /\ ann_in_window = C7_Example
    /\ waves.P = <<<<10, 15, 20>>>>
    /\ waves.QRS = <<<<25, 30, 35>>>>

\* C8: a '(' X ')' run goes to the QRS bucket exactly when X is N, V or A in
\* either case, to P exactly when X is 'p', to T exactly when X is 't'; for any
\* other X, uppercase 'P' and 'T' included, no triplet is emitted.
C8_BucketByTypeCode ==
    pc = "scanned" =>
        /\ \A k \in RunStarts :
              (SymbolAt(k) = "(" /\ SymbolAt(k + 2) = ")") =>
                  /\ InBucket(k, "QRS") <=> SymbolAt(k + 1) \in {"N", "V", "A", "n", "v", "a"}
                  /\ InBucket(k, "P") <=> SymbolAt(k + 1) = "p"
                  /\ InBucket(k, "T") <=> SymbolAt(k + 1) = "t"
        /\ \A t \in WaveTypes : \A n \in 1..Len(waves[t]) :
              \E k \in RunStarts :
                  waves[t][n] = TripletAt(k) /\ SymbolAt(k) = "(" /\ SymbolAt(k + 2) = ")"

C8_Witness ==
    /\ pc = "scanned"
    /\ ann_in_window = MkAnn(<<"(", "v", ")">>)
    /\ waves = [QRS |-> <<<<10, 15, 20>>>>, P |-> <<>>, T |-> <<>>]

\* The events of the window the main loop is about to process.
CurrentWindow == window_annotations(db.ann, w)

HasValidRun(anns) ==
    \E k \in 1..(Len(anns) - 2) :
        anns[k][2] = "(" /\ anns[k + 1][2] \in TypeCodes /\ anns[k + 2][2] = ")"

\* C9: a window with three or more events of which no three consecutive ones
\* form a valid triplet never causes a failure: no exception is raised for it and
\* generation goes on with the next window of the same lead and record.
C9_NoTripletWindowIsSkipped ==
    [][(pc = "window" /\ w < num_windows
            /\ Len(CurrentWindow) >= 3 /\ ~HasValidRun(CurrentWindow))
        => (/\ errors' = errors
            /\ pc' = "window"
            /\ rec_id' = rec_id
            /\ lead_idx' = lead_idx
            /\ w' = w + 1)]_vars

\* C10: when the processing of a record raises an exception at any point,
\* neither dataset holds an example of that record at the end of the run.
\* The record number an example id starts with.
RecordOfId(id) ==
    LET sep == CHOOSE k \in 1..Len(id) :
                   id[k] = "_" /\ \A j \in 1..(k - 1) : id[j] # "_"
    IN  IntOf(SubSeq(id, 1, sep - 1))

C10_NoExampleOfFailedRecord ==
    pc = "done" => \A ex \in Examples : RecordOfId(ex.id) \notin errors

\* The image files the examples of a dataset refer to.
ImagesOf(dataset) == {dataset[k].image.file : k \in 1..Len(dataset)}

\* C11: at the end of a run there is exactly one image file per emitted
\* example: every image file written is referenced by an example of each
\* dataset, and the image of every example was written.
C11_OneImagePerExample ==
    pc = "done" =>
        /\ ImagesOf(dataset_wo_meta) = images
        /\ ImagesOf(dataset_with_meta) = images
        /\ Len(dataset_wo_meta) = Cardinality(images)
        /\ Len(dataset_with_meta) = Cardinality(images)

\* The (record, lead, window) triples of a run.
Triples == (1..NumRecords) \X LeadNames \X (0..(MaxWindows - 1))

Distinct(seq) == \A j, k \in 1..Len(seq) : seq[j] = seq[k] => j = k

NamesInjective ==
    \A t1, t2 \in Triples :
        \/ t1 = t2
        \/ /\ img_filename(t1[1], t1[2], t1[3]) # img_filename(t2[1], t2[2], t2[3])
           /\ \A sfx \in {"wo_meta", "with_meta"} :
                  example_id(t1[1], t1[2], t1[3], sfx)
                      # example_id(t2[1], t2[2], t2[3], sfx)

\* C12: two different (record, lead, window) triples never have the same image
\* filename or the same example id, so the file a window is about to write has
\* not been written before in the run and no dataset holds an id twice.
C12_NoFilenameCollision ==
    /\ NamesInjective
    /\ (pc = "window" /\ w < num_windows /\ CurrentWindow # <<>>)
            => img_filename(rec_id, LEADS[lead_idx + 1], w) \notin images
    /\ Distinct([k \in 1..Len(dataset_wo_meta) |-> dataset_wo_meta[k].id])
    /\ Distinct([k \in 1..Len(dataset_with_meta) |-> dataset_with_meta[k].id])
    /\ Distinct([k \in 1..Len(dataset_wo_meta) |-> dataset_wo_meta[k].image])

C12_Witness ==
    /\ pc = "done"
    /\ Cardinality(images) = 2 * NumRecords * Len(LEADS)
    /\ Len(dataset_wo_meta) = Cardinality(images)
    /\ img_filename(1, "ii", 1) \in images

\* C13: round trip.  For every triplet (x1, x2, x3, type) with
\* 0 <= x1 <= x2 <= x3 and type P, QRS or T, the text build_patch_aware_questions
\* writes for it is parsed by extract_coordinates_advanced, and by
\* extract_coordinates_from_response, to exactly that one triplet.
C13_RoundTrip ==
    pc = "returned_round_trip" =>
        LET triplet == <<call.triplet[1], call.triplet[2], call.triplet[3],
                         wave_chars(call.wave_type)>>
        IN  /\ ret.advanced = <<triplet>>
            /\ ret.from_response = <<triplet>>

\* The tuples of a result.
TuplesOf(coordinates) == {coordinates[k] : k \in 1..Len(coordinates)}

ValidTuple(c) ==
    /\ 0 <= c[1] /\ c[1] <= c[2] /\ c[2] <= c[3]
    /\ c[4] \in {<<"P">>, <<"Q", "R", "S">>, <<"T">>}

\* C14: extract_coordinates_advanced never raises, every tuple it returns has
\* 0 <= x1 <= x2 <= x3 and an upper-case label P, QRS or T, and a text of tags
\* with out-of-order coordinates or an unknown label gives no tuple.
C14_ParserValidates ==
    (pc = "returned_parse" /\ call.parser = "advanced") =>
        /\ ret.raises = ""
        /\ \A c \in TuplesOf(ret.coordinates) : ValidTuple(c)
        /\ call.text \in TextsOf({TagOutOfOrder, TagUnknownLabel}, MaxFragments)
              => ret.coordinates = <<>>

C14_Witness ==
    /\ pc = "returned_parse" /\ call.parser = "advanced"
    /\ call.text = TagOutOfOrder \o TagLowerQrs
    /\ TuplesOf(ret.coordinates) = {<<5, 10, 100, <<"Q", "R", "S">>>>}

\* C15: the triplet parser returns a triplet only for an occurrence of the
\* x1/x2/x3/alt attribute pattern: a text without one, such as prose with three
\* whitespace-separated numbers and later a letter p, q or t, gives an empty
\* result.
C15_OnlyAttributePattern ==
    (/\ pc = "returned_parse" /\ call.parser = "advanced"
     /\ findall(PointsPattern, call.text) = <<>>
     /\ findall(AttrPattern, call.text) = <<>>)
        => ret.coordinates = <<>>

\* C16: a points tag whose x1, x2, x3 are one-decimal floats is accepted like a
\* tag of integers: the triplet parser returns a triplet for it.
C16_FloatTagAccepted ==
    (pc = "returned_parse" /\ call.text = TagFloat) => ret.coordinates # <<>>

\* C17: every granularity option has a width and a height that are multiples of
\* the patch size 28, total_patches = (width / 28) * (height / 28) and
\* ms_per_pixel = (1000 / 500) * samples_per_pixel; "fine" has width 504,
\* height 224 and ms_per_pixel 4.0.  The examples carry these values.
C17_GranularityPatchAligned ==
    /\ \A g \in GranularityNames :
          LET m == metadata(g)
          IN  /\ m.image_width = GRANULARITY_OPTIONS[g].width
              /\ m.image_height = GRANULARITY_OPTIONS[g].height
              /\ m.image_width % 28 = 0
              /\ m.image_height % 28 = 0
              /\ m.total_patches = (m.image_width \div 28) * (m.image_height \div 28)
              /\ m.ms_per_pixel * 500 = 1000 * GRANULARITY_OPTIONS[g].samples_per_pixel
              /\ m.samples_per_pixel = GRANULARITY_OPTIONS[g].samples_per_pixel
    /\ LET fine == metadata("fine")
       IN  fine.image_width = 504 /\ fine.image_height = 224 /\ fine.ms_per_pixel = 4
    /\ \A ex \in Examples : ex.metadata = metadata(granularity)

C17_Witness ==
    /\ pc = "done"
    /\ granularity = "fine"
    /\ Len(dataset_with_meta) > 0
    /\ dataset_with_meta[1].metadata.image_width = 504
    /\ dataset_with_meta[1].metadata.ms_per_pixel = 4
    /\ dataset_with_meta[1].metadata.total_patches = 144

\* The corrective resizes of the call so far.
Resizes == {k \in 1..Len(log) : log[k].msg = "Resizing"}

\* C18: whatever size the renderer produced, when create_patch_aligned_image
\* returns the image saved at output_path has exactly the requested
\* (width, height); at most one corrective resize is made and a mismatch never
\* raises.
C18_SavedImageHasRequestedSize ==
    /\ Cardinality(Resizes) <= 1
    /\ ret.raises = ""
    /\ pc = "returned_image" => disk = <<call.width, call.height>>

C18_Witness ==
    /\ pc = "returned_image"
    /\ call.rendered = <<call.width - 1, call.height + 2>>
    /\ Cardinality(Resizes) = 1
    /\ disk = <<call.width, call.height>>

\* C19: the patch-alignment verification runs after the corrective resize and
\* reports on the image as finally saved: when the requested width and height
\* are multiples of 28 success is logged, whatever the renderer's first output.
C19_AlignmentReportedOnSavedImage ==
    (pc = "returned_image" /\ call.width % 28 = 0 /\ call.height % 28 = 0)
        => log[Len(log)] = LogLine("Perfect patch alignment", disk, <<>>)

\* The size of the image file a reference names.
OwnSize(ref) == IF ref = FileUri THEN Files["ecg.png"] ELSE Files[ref]

\* An item that makes process_vision_info keep the file's size.
KeepsSize(item, ref) ==
    /\ {"resized_width", "resized_height"} \subseteq DOMAIN item
    /\ item["resized_width"] = OwnSize(ref)[1]
    /\ item["resized_height"] = OwnSize(ref)[2]
    /\ "min_pixels" \notin DOMAIN item
    /\ "max_pixels" \notin DOMAIN item

\* C20: image preprocessing never resizes.  Every image item handed to
\* process_vision_info has resized_width and resized_height equal to the image
\* file's own size and no min_pixels or max_pixels key, whatever keys the
\* caller's item had and whatever width and height the caller asked for; other
\* items are handed on unchanged.
C20_PreprocessingNeverResizes ==
    (pc = "returned_vision" /\ ret.raises = "") =>
        IF call.op = "get_image_info"
        THEN KeepsSize(ret.handed[1]["content"][1], call.image_path)
        ELSE /\ Len(ret.handed) = Len(call.messages)
             /\ \A m \in 1..Len(call.messages) :
                    IF has_content(call.messages[m])
                    THEN /\ Len(ret.handed[m]["content"]) = Len(call.messages[m]["content"])
                         /\ \A k \in 1..Len(call.messages[m]["content"]) :
                                LET item == call.messages[m]["content"][k]
                                    out  == ret.handed[m]["content"][k]
                                IN  IF is_image(item)
                                    THEN KeepsSize(out, item["image"])
                                    ELSE out = item
                    ELSE ret.handed[m] = call.messages[m]

\* x is a sample the creators of enhance_ecg_dataset.py can make from turn
\* convo of a sample, whatever the draws.
AugmentedOfTurn(x, sample, convo) ==
    /\ is_tagged(convo)
    /\ ~convo_raises(convo)
    /\ LET coords == extract_coordinates_from_text(convo.value)
           wave_type == wave_type_of(convo.value)
       IN  /\ Len(coords) >= 3
           /\ \/ x = create_temporal_mapping_sample(sample, coords)
              \/ x = create_coordinate_verification_sample(sample, coords, wave_type)
              \/ \E p1 \in precise_coord_texts(coords[1]),
                    p2 \in precise_coord_texts(coords[2]),
                    p3 \in precise_coord_texts(coords[3]) :
                     x = create_precision_boundary_sample(sample, coords, wave_type,
                                                          <<p1, p2, p3>>)

\* x is a sample the creators can make from a sample of the dataset.
AugmentedOf(x, original_data) ==
    \E k \in 1..Len(original_data) :
        \/ x = create_temporal_context_sample(original_data[k])
        \/ \E t \in 1..Len(original_data[k].conversations) :
               AugmentedOfTurn(x, original_data[k], original_data[k].conversations[t])

\* C21: the list enhance_ecg_dataset writes holds every original sample
\* exactly once, and every other element of it is an augmented sample, also
\* when the list was trimmed to the target size.
C21_OriginalsExactlyOnce ==
    (pc = "returned_enhance" /\ ret.written) =>
        LET original_data == call.original_data
            enhanced_data == ret.enhanced_data
            originals == {original_data[k] : k \in 1..Len(original_data)}
        IN  /\ \A k \in 1..Len(original_data) :
                  Cardinality({j \in 1..Len(enhanced_data) :
                                  enhanced_data[j] = original_data[k]}) = 1
            /\ \A j \in 1..Len(enhanced_data) :
                  \/ enhanced_data[j] \in originals
                  \/ AugmentedOf(enhanced_data[j], original_data)

\* C22: the list enhance_ecg_dataset writes never has more than
\* int(n * factor) samples, and has exactly that many whenever the loop
\* produced more.
C22_TrimmedSize ==
    (pc = "returned_enhance" /\ ret.written) =>
        /\ Len(ret.enhanced_data) <= ret.target_size
        /\ ret.produced > ret.target_size =>
              Len(ret.enhanced_data) = ret.target_size

\* A trimmed list that keeps some augmented samples is reached.
C22_Witness ==
    /\ pc = "returned_enhance"
    /\ ret.written
    /\ ret.produced > ret.target_size
    /\ ret.target_size > Len(call.original_data)
    /\ Len(ret.enhanced_data) = ret.target_size

\* The (human, gpt) pairs of a conversation of even length, and how often a
\* pair occurs in it.
PairAt(convo, k) == <<convo[2 * k - 1], convo[2 * k]>>

PairsOf(convo) == {PairAt(convo, k) : k \in 1..(Len(convo) \div 2)}

PairCount(convo, pair) ==
    Cardinality({k \in 1..(Len(convo) \div 2) : PairAt(convo, k) = pair})

\* C23: on a conversation of even length pairwise_shuffle returns a
\* conversation of the same length whose pairs are a permutation of the
\* pairs of the input: every pair, and so every turn, occurs as often as in
\* the input, and every turn at an even position (counted from 0) is
\* followed by the turn that followed it in the input.
C23_PairsPermuted ==
    (pc = "returned_shuffle" /\ Len(call.convo) % 2 = 0) =>
        /\ ret.raises = ""
        /\ Len(ret.shuffled) = Len(call.convo)
        /\ \A pair \in PairsOf(call.convo) \cup PairsOf(ret.shuffled) :
              PairCount(ret.shuffled, pair) = PairCount(call.convo, pair)

\* A conversation of two different pairs comes back in the other order.
C23_Witness ==
    /\ pc = "returned_shuffle"
    /\ Len(call.convo) = 4
    /\ ret.raises = ""
    /\ ret.shuffled # call.convo
    /\ PairAt(ret.shuffled, 1) = PairAt(call.convo, 2)

\* The attempts that yielded coordinates, as indices of the responses.
WithCoordinates(responses) ==
    {a \in 1..Len(responses) : extract_coordinates(responses[a]) # <<>>}

\* C24: when at least two attempts yield coordinates and their lists have
\* one length, precision_inference returns the response of an attempt whose
\* coordinates have the least total absolute deviation from the averaged
\* consensus, also when some attempt yields no coordinates.
C24_ClosestToConsensus ==
    LET responses == call.responses
        yielding == WithCoordinates(responses)
        lists == coordinates_of(responses)
    IN  (/\ pc = "returned_consensus"
         /\ Cardinality(yielding) >= 2
         /\ \A a, b \in yielding :
               Len(extract_coordinates(responses[a]))
                   = Len(extract_coordinates(responses[b])))
        => \E a \in yielding :
              /\ ret.response = responses[a]
              /\ \A b \in yielding :
                    ~float_lt(deviation(extract_coordinates(responses[b]),
                                        avg_coords_of(lists)),
                              deviation(extract_coordinates(responses[a]),
                                        avg_coords_of(lists)))

\* C28: for every granularity, the ms_per_pixel that estimate_temporal_context
\* and the width table of the interactive script give for an image of that
\* granularity's width is the generator's (1000 / FS) * samples_per_pixel.
C28_SameMsPerPixel ==
    \A g \in GranularityNames :
        (/\ pc = "returned_context"
         /\ call.image_path \in DOMAIN call.files
         /\ call.files[call.image_path] = FIXED_WIDTH(g))
        => ret.ms_per_pixel = float_of_int(MS_PER_PIXEL(g))

\* The current message brings no image of its own.
NoImageInMessage(message) ==
    \A k \in 1..Len(message.files) : is_video_file(message.files[k])

\* C26: when the current message has no image, the temporal context
\* bot_streaming works with is the one of the image that
\* find_image_path_in_conversation selects, the most recent image of the
\* history, whatever the widths of the images of the history.
C26_ContextOfSelectedImage ==
    (/\ pc = "returned_history"
     /\ NoImageInMessage(call.message)
     /\ ret.ecg_image_path # "None")
    => ret.temporal_context
           = estimate_temporal_context(ret.ecg_image_path, call.files)

\* C29: for input_ids and labels of one length, max_length >= 1 and an
\* eos_token_id that is not None, truncate_sequence returns two sequences of
\* one length, at most max_length long, whose last element is eos_token_id.
C29_TruncatedWithinMaxLength ==
    (/\ pc = "returned_truncate"
     /\ call.max_length >= 1
     /\ call.eos_token_id # <<>>)
    => /\ Len(ret.input_ids) = Len(ret.labels)
       /\ Len(ret.input_ids) <= call.max_length
       /\ ret.input_ids[Len(ret.input_ids)] = call.eos_token_id[1]
       /\ ret.labels[Len(ret.labels)] = call.eos_token_id[1]

\* C27: at every turn k of either multi-turn driver the conversation handed
\* to the chat template is chronological and alternating: user 1,
\* assistant 1, ..., user k, and so ends with the current user message.
C27_HistoryAlternates ==
    (pc = "turn" /\ idx >= 1) =>
        /\ Len(conv_history) = 2 * idx - 1
        /\ \A j \in 1..idx : conv_history[2 * j - 1] = call.messages[j]
        /\ \A j \in 1..(idx - 1) : conv_history[2 * j] = assistant_replies[j]

\* A conversation of human/gpt pairs whose first turn, and no other, has the
\* "<image>" marker once.
WellFormedConversation(convo) ==
    /\ Len(convo) > 0
    /\ Len(convo) % 2 = 0
    /\ \A k \in 1..Len(convo) :
          /\ convo[k].from = (IF k % 2 = 1 THEN "human" ELSE "gpt")
          /\ convo[k].image = (IF k = 1 THEN 1 ELSE 0)

\* The examples a step finds in a dataset are still there, unchanged.
Kept(before, after) ==
    /\ Len(after) >= Len(before)
    /\ \A k \in 1..Len(before) : after[k] = before[k]

\* C30: every example of either dataset has a conversation that is not
\* empty, of even length, alternating human and gpt from a human turn, with
\* the "<image>" marker on its first turn and on no other; and an example
\* once appended is not changed by the rest of the generation.
C30_ExamplesWellFormedAndKept ==
    /\ [](\A k \in 1..Len(dataset_wo_meta) :
             WellFormedConversation(dataset_wo_meta[k].conversations))
    /\ [](\A k \in 1..Len(dataset_with_meta) :
             WellFormedConversation(dataset_with_meta[k].conversations))
    /\ [][/\ Kept(dataset_wo_meta, dataset_wo_meta')
          /\ Kept(dataset_with_meta, dataset_with_meta')]_vars

\* Both datasets hold examples, one of them with several questions, and the
\* generation has gone on to a later example.
C30_Witness ==
    /\ Len(dataset_wo_meta) >= 2
    /\ Len(dataset_with_meta) >= 2
    /\ \E k \in 1..Len(dataset_with_meta) :
          Len(dataset_with_meta[k].conversations) >= 4

\* C25: when a generation whose complete text has a valid coordinate tag
\* has been streamed to its end, with an image and a temporal context, the
\* last value bot_streaming yielded has the coordinate summary of the
\* complete text, however the generation thread and the consumer
\* interleave.
C25_LastValueHasSummary ==
    LET full_text == Concat(call.chunks)
    IN  (/\ pc = "stream_done"
         /\ extract_coordinates_from_response(full_text) # <<>>
         /\ call.temporal_context # <<>>
         /\ call.ecg_image_path # "None")
        => /\ yielded # <<>>
           /\ yielded[Len(yielded)].coordinate_summary
                  = format_coordinates_for_display(
                        extract_coordinates_from_response(full_text),
                        call.temporal_context)

====
